---- MODULE Spec2Model ----
(***************************************************************************)
(* ModelManipulator (src/model/manipulator.ts): the in-memory ArchiMate    *)
(* aggregate, its CRUD operations, the snapshot transactions and the       *)
(* suspension points of the asynchronous operations; the persistence       *)
(* serializer (src/model/persistence.ts), the model-file tools of the MCP  *)
(* server, the typed error objects and the validation reporters.           *)
(*                                                                         *)
(* JavaScript arrays are sequences (1-based here, so findIndex/indexOf     *)
(* return 0 where the code gets -1).  An optional input field that the     *)
(* caller leaves out holds Undefined.                                      *)
(***************************************************************************)
EXTENDS Integers, Sequences, FiniteSets, TLC

----
\* Bounds of the model

\* number of calls in one behaviour of Spec
MaxCalls == 2
\* number of calls in one behaviour of SpecTx
MaxTxCalls == 4
\* number of calls in one behaviour of SpecAsync
MaxAsyncCalls == 2
\* number of calls in one behaviour of SpecSession
MaxSessionCalls == 2
\* number of nodeHierarchy pairs of the view in the models of SpecCodec
MaxPairs == 2
\* number of tool invocations in one behaviour of SpecTools
MaxToolCalls == 2
\* number of relationships in the lists given to the validator in SpecValidate
MaxListed == 2

----
\* Strings of the model's universe

Undefined == "<undefined>"
\* the same for an optional string[] field and an optional nodeHierarchy field
UndefinedList == <<Undefined>>
UndefinedPairs == <<[parentElement |-> Undefined, childElement |-> Undefined]>>

\* what generateId can return for each prefix
GenIds == [elem |-> "elem-1", rel |-> "rel-1", view |-> "view-1"]

\* String.prototype.trim on the strings of the universe
Trim(s) ==
  CASE s = " " -> ""
    [] s = " a" -> "a"
    [] s = " X" -> "X"
    [] s = " p" -> "p"
    [] OTHER -> s

\* JavaScript falsiness of an optional string: undefined or the empty string
Falsy(s) == s = Undefined \/ s = ""

\* the test `!s || s.trim() === ''` of the required-field checks
BlankOrMissing(s) == Falsy(s) \/ Trim(s) = ""

----
\* Array helpers

\* Array.prototype.includes
Includes(seq, x) == \E i \in 1..Len(seq) : seq[i] = x

\* Array.prototype.indexOf (0 when absent)
IndexOf(seq, x) ==
  IF Includes(seq, x)
  THEN CHOOSE i \in 1..Len(seq) : seq[i] = x /\ \A j \in 1..(i-1) : seq[j] # x
  ELSE 0

\* Array.prototype.splice(i, 1)
SpliceAt(seq, i) == [j \in 1..(Len(seq)-1) |-> IF j < i THEN seq[j] ELSE seq[j+1]]

\* const i = seq.indexOf(x); if (i !== -1) seq.splice(i, 1)
RemoveFirst(seq, x) ==
  LET i == IndexOf(seq, x) IN IF i = 0 THEN seq ELSE SpliceAt(seq, i)

\* if (!seq.includes(x)) seq.push(x)
PushUnique(seq, x) == IF Includes(seq, x) THEN seq ELSE Append(seq, x)

\* nodeHierarchy.filter(h => h.parentElement !== id && h.childElement !== id)
RECURSIVE FilterHierarchy(_, _)
FilterHierarchy(seq, id) ==
  IF seq = <<>> THEN <<>>
  ELSE IF Head(seq).parentElement # id /\ Head(seq).childElement # id
       THEN <<Head(seq)>> \o FilterHierarchy(Tail(seq), id)
       ELSE FilterHierarchy(Tail(seq), id)

Range(seq) == {seq[i] : i \in 1..Len(seq)}

----
\* Property maps: a Record<string, string> is the set of its entries

NoProperties == {}

\* key in properties (a missing properties member carries no key)
HasKey(properties, key) == \E p \in properties : p.key = key

\* properties[key] = value
PutKey(properties, key, value) ==
  {p \in properties : p.key # key} \cup {[key |-> key, value |-> value]}

\* delete properties[key]
DeleteKey(properties, key) == {p \in properties : p.key # key}

\* data.properties !== undefined, for an input that may leave the member out
SuppliesProperties(data) == "properties" \in DOMAIN data

\* data.properties ? { ...data.properties } : {}
propertiesOrNone(data) == IF SuppliesProperties(data) THEN data.properties ELSE NoProperties

\* if (data.properties !== undefined) entity.properties = { ...data.properties }
withProperties(entity, data) ==
  IF SuppliesProperties(data) THEN [entity EXCEPT !.properties = data.properties] ELSE entity

----
\* Lookups on ModelData

\* this.model.elements.findIndex(e => e.id === id)
ElementIndex(m, id) ==
  IF \E i \in 1..Len(m.elements) : m.elements[i].id = id
  THEN CHOOSE i \in 1..Len(m.elements) :
         m.elements[i].id = id /\ \A j \in 1..(i-1) : m.elements[j].id # id
  ELSE 0

RelationshipIndex(m, id) ==
  IF \E i \in 1..Len(m.relationships) : m.relationships[i].id = id
  THEN CHOOSE i \in 1..Len(m.relationships) :
         m.relationships[i].id = id /\ \A j \in 1..(i-1) : m.relationships[j].id # id
  ELSE 0

ViewIndex(m, id) ==
  IF \E i \in 1..Len(m.views) : m.views[i].id = id
  THEN CHOOSE i \in 1..Len(m.views) :
         m.views[i].id = id /\ \A j \in 1..(i-1) : m.views[j].id # id
  ELSE 0

\* getElement(id) !== null, and the same for relationships and views
HasElement(m, id) == ElementIndex(m, id) # 0
HasRelationship(m, id) == RelationshipIndex(m, id) # 0
HasView(m, id) == ViewIndex(m, id) # 0

getElement(m, id) == m.elements[ElementIndex(m, id)]
getRelationship(m, id) == m.relationships[RelationshipIndex(m, id)]
getView(m, id) == m.views[ViewIndex(m, id)]

\* a lookup that searches the elements only
identifierExistsAmongElements(m, id) ==
  \E i \in 1..Len(m.elements) : m.elements[i].id = id

identifierExists(m, id) ==
  \/ \E i \in 1..Len(m.elements) : m.elements[i].id = id
  \/ \E i \in 1..Len(m.relationships) : m.relationships[i].id = id
  \/ \E i \in 1..Len(m.views) : m.views[i].id = id

\* the taxonomies
ElementTypes ==
  {"BusinessActor", "BusinessRole", "BusinessCollaboration", "BusinessInterface",
   "BusinessProcess", "BusinessFunction", "BusinessInteraction", "BusinessEvent",
   "BusinessService", "BusinessObject", "Contract", "Representation",
   "ApplicationComponent", "ApplicationCollaboration", "ApplicationInterface",
   "ApplicationFunction", "ApplicationInteraction", "ApplicationProcess",
   "ApplicationEvent", "ApplicationService", "DataObject",
   "Node", "Device", "SystemSoftware", "TechnologyCollaboration",
   "TechnologyInterface", "TechnologyFunction", "TechnologyProcess",
   "TechnologyInteraction", "TechnologyEvent", "TechnologyService",
   "Artifact", "CommunicationNetwork", "Path", "Network",
   "Stakeholder", "Driver", "Assessment", "Goal", "Outcome",
   "Principle", "Requirement", "Constraint",
   "Resource", "Capability", "CourseOfAction", "ValueStream",
   "Equipment", "Facility", "DistributionNetwork", "Material",
   "WorkPackage", "Deliverable", "ImplementationEvent", "Plateau", "Gap"}

RelationshipTypes ==
  {"Composition", "Aggregation", "Assignment", "Realization", "Serving",
   "Access", "Influence", "Association", "Flow", "Triggering",
   "Specialization", "Junction"}

\* result.valid of validateElementType / validateRelationshipType
validateElementType(type) == type \in ElementTypes
validateRelationshipType(type) == type \in RelationshipTypes

\* the outcome of a call: the model it leaves, and the error it threw
Ok(m) == [model |-> m, err |-> "none"]
Throw(m, e) == [model |-> m, err |-> e]

----
\* Element operations

\* createElement up to its await: the required-field checks
createElementChecks(data) ==
  IF BlankOrMissing(data.name) THEN "ValidationError"
  ELSE IF BlankOrMissing(data.type) THEN "ValidationError"
  ELSE "none"

\* a creation that accepts any non-blank type
createElementResumeAnyType(m, data, gen) ==
  LET identifier == IF BlankOrMissing(data.identifier) THEN gen ELSE data.identifier
      element == [id |-> identifier, name |-> Trim(data.name), type |-> Trim(data.type),
                  properties |-> propertiesOrNone(data),
                  inViews |-> <<>>, outgoingRelations |-> <<>>, incomingRelations |-> <<>>]
  IN IF identifierExists(m, identifier) THEN Throw(m, "DuplicateError")
     ELSE Ok([m EXCEPT !.elements = Append(@, element)])

\* createElement after `await this.validateElementType(data.type)`;
\* gen is the value generateId('elem') returns if it is called
createElementResume(m, data, gen) ==
  IF ~validateElementType(data.type) THEN Throw(m, "ValidationError")
  ELSE
    LET identifier == IF BlankOrMissing(data.identifier) THEN gen ELSE data.identifier
        element == [id |-> identifier, name |-> Trim(data.name), type |-> Trim(data.type),
                    properties |-> propertiesOrNone(data),
                    inViews |-> <<>>, outgoingRelations |-> <<>>, incomingRelations |-> <<>>]
    IN IF identifierExists(m, identifier) THEN Throw(m, "DuplicateError")
       ELSE Ok([m EXCEPT !.elements = Append(@, element)])

createElement(m, data, gen) ==
  IF createElementChecks(data) # "none" THEN Throw(m, createElementChecks(data))
  ELSE createElementResume(m, data, gen)

\* updateElement suspends only when a truthy type different from the current one is supplied
updateElementAwaits(m, id, data) ==
  /\ HasElement(m, id)
  /\ ~Falsy(data.type)
  /\ data.type # getElement(m, id).type

\* the field assignments of updateElement on the element object found before the
\* await; attached says whether that object is still the entry of the array (an
\* object that has left the array is changed without effect on m)
\* an update that assigns the type before it rejects a blank name
updateElementFieldsTypeFirst(m, id, data, attached) ==
  IF ~attached THEN
    IF data.name # Undefined /\ Trim(data.name) = "" THEN Throw(m, "ValidationError")
    ELSE Ok(m)
  ELSE
    LET i == ElementIndex(m, id)
        e0 == m.elements[i]
        e1 == IF data.type # Undefined THEN [e0 EXCEPT !.type = Trim(data.type)] ELSE e0
        e2 == IF data.name # Undefined THEN [e1 EXCEPT !.name = Trim(data.name)] ELSE e1
    IN IF data.name # Undefined /\ Trim(data.name) = ""
       THEN Throw([m EXCEPT !.elements[i] = e1], "ValidationError")
       ELSE Ok([m EXCEPT !.elements[i] = withProperties(e2, data)])

updateElementFields(m, id, data, attached) ==
  IF data.name # Undefined /\ Trim(data.name) = "" THEN Throw(m, "ValidationError")
  ELSE IF ~attached THEN Ok(m)
  ELSE
    LET i == ElementIndex(m, id)
        e0 == m.elements[i]
        e1 == IF data.name # Undefined THEN [e0 EXCEPT !.name = Trim(data.name)] ELSE e0
        e2 == IF data.type # Undefined THEN [e1 EXCEPT !.type = Trim(data.type)] ELSE e1
    IN Ok([m EXCEPT !.elements[i] = withProperties(e2, data)])

\* updateElement after `await this.validateElementType(data.type)`
updateElementResume(m, id, data, attached) ==
  IF ~validateElementType(data.type) THEN Throw(m, "ValidationError")
  ELSE updateElementFields(m, id, data, attached)

updateElement(m, id, data) ==
  IF ~HasElement(m, id) THEN Throw(m, "NotFoundError")
  ELSE IF updateElementAwaits(m, id, data) THEN updateElementResume(m, id, data, TRUE)
  ELSE updateElementFields(m, id, data, TRUE)

\* deleteElement, the loop over element.outgoingRelations
RECURSIVE cascadeOutgoing(_, _)
cascadeOutgoing(m, relIds) ==
  IF relIds = <<>> THEN m
  ELSE
    LET relId == Head(relIds)
        relIndex == RelationshipIndex(m, relId)
    IN IF relIndex = 0 THEN cascadeOutgoing(m, Tail(relIds))
       ELSE
         LET rel == m.relationships[relIndex]
             t == ElementIndex(m, rel.targetId)
             m1 == IF t = 0 THEN m
                   ELSE [m EXCEPT !.elements[t].incomingRelations = RemoveFirst(@, relId)]
             m2 == [m1 EXCEPT !.relationships = SpliceAt(@, relIndex)]
         IN cascadeOutgoing(m2, Tail(relIds))

\* deleteElement, the loop over element.incomingRelations
RECURSIVE cascadeIncoming(_, _)
cascadeIncoming(m, relIds) ==
  IF relIds = <<>> THEN m
  ELSE
    LET relId == Head(relIds)
        relIndex == RelationshipIndex(m, relId)
    IN IF relIndex = 0 THEN cascadeIncoming(m, Tail(relIds))
       ELSE
         LET rel == m.relationships[relIndex]
             s == ElementIndex(m, rel.sourceId)
             m1 == IF s = 0 THEN m
                   ELSE [m EXCEPT !.elements[s].outgoingRelations = RemoveFirst(@, relId)]
             m2 == [m1 EXCEPT !.relationships = SpliceAt(@, relIndex)]
         IN cascadeIncoming(m2, Tail(relIds))

\* deleteElement, the loop over element.inViews
RECURSIVE cascadeViews(_, _, _)
cascadeViews(m, id, viewIds) ==
  IF viewIds = <<>> THEN m
  ELSE
    LET v == ViewIndex(m, Head(viewIds))
        m1 == IF v = 0 THEN m
              ELSE [m EXCEPT !.views[v].elements = RemoveFirst(@, id),
                             !.views[v].nodeHierarchy = FilterHierarchy(@, id)]
    IN cascadeViews(m1, id, Tail(viewIds))

\* dependents that leave out the views the element is in
dependentsOfRelationsOnly(element) ==
  element.outgoingRelations \o element.incomingRelations

\* the dependents deleteElement reports in its ReferentialIntegrityError
dependentsOf(element) ==
  element.outgoingRelations \o element.incomingRelations \o element.inViews

deleteElement(m, id, opts) ==
  IF ~HasElement(m, id) THEN Throw(m, "NotFoundError")
  ELSE
    LET elementIndex == ElementIndex(m, id)
        element == m.elements[elementIndex]
    IN IF opts.validate /\ ~opts.cascade /\ dependentsOf(element) # <<>>
       THEN Throw(m, "ReferentialIntegrityError")
       ELSE
         LET m1 == IF opts.cascade
                   THEN cascadeOutgoing(m, element.outgoingRelations)
                   ELSE m
             m2 == IF opts.cascade
                   THEN cascadeIncoming(m1, m1.elements[elementIndex].incomingRelations)
                   ELSE m1
             m3 == IF opts.cascade
                   THEN cascadeViews(m2, id, m2.elements[elementIndex].inViews)
                   ELSE m2
         IN Ok([m3 EXCEPT !.elements = SpliceAt(@, elementIndex)])

----
\* Relationship operations

\* createRelationship up to its await: the required-field checks
createRelationshipChecks(data) ==
  IF BlankOrMissing(data.type) THEN "ValidationError"
  ELSE IF BlankOrMissing(data.sourceId) THEN "ValidationError"
  ELSE IF BlankOrMissing(data.targetId) THEN "ValidationError"
  ELSE "none"

\* createRelationship after `await this.validateRelationshipType(data.type)`
createRelationshipResume(m, data, gen) ==
  IF ~validateRelationshipType(data.type) THEN Throw(m, "ValidationError")
  ELSE IF ~HasElement(m, data.sourceId) THEN Throw(m, "NotFoundError")
  ELSE IF ~HasElement(m, data.targetId) THEN Throw(m, "NotFoundError")
  ELSE IF data.sourceId = data.targetId THEN Throw(m, "ValidationError")
  ELSE
    LET identifier == IF BlankOrMissing(data.identifier) THEN gen ELSE data.identifier
        relationship == [id |-> identifier, sourceId |-> Trim(data.sourceId),
                         targetId |-> Trim(data.targetId), type |-> Trim(data.type),
                         properties |-> propertiesOrNone(data)]
        s == ElementIndex(m, data.sourceId)
        t == ElementIndex(m, data.targetId)
    IN IF identifierExists(m, identifier) THEN Throw(m, "DuplicateError")
       ELSE Ok([m EXCEPT !.relationships = Append(@, relationship),
                         !.elements[s].outgoingRelations = Append(@, identifier),
                         !.elements[t].incomingRelations = Append(@, identifier)])

createRelationship(m, data, gen) ==
  IF createRelationshipChecks(data) # "none" THEN Throw(m, createRelationshipChecks(data))
  ELSE createRelationshipResume(m, data, gen)

\* updateRelationship suspends only when a truthy type different from the current one is supplied
updateRelationshipAwaits(m, id, data) ==
  /\ HasRelationship(m, id)
  /\ ~Falsy(data.type)
  /\ data.type # getRelationship(m, id).type

\* updateRelationship, "Update element references if source or target changed":
\* the relation id moves off the previous source and onto data.sourceId
migrateSource(m, id, data, previousSourceId) ==
  IF ~Falsy(data.sourceId) /\ data.sourceId # previousSourceId
  THEN
    LET o == ElementIndex(m, previousSourceId)
        m1 == IF o = 0 THEN m
              ELSE [m EXCEPT !.elements[o].outgoingRelations = RemoveFirst(@, id)]
        n == ElementIndex(m1, data.sourceId)
    IN IF n = 0 THEN m1
       ELSE [m1 EXCEPT !.elements[n].outgoingRelations = PushUnique(@, id)]
  ELSE m

migrateTarget(m, id, data, previousTargetId) ==
  IF ~Falsy(data.targetId) /\ data.targetId # previousTargetId
  THEN
    LET o == ElementIndex(m, previousTargetId)
        m1 == IF o = 0 THEN m
              ELSE [m EXCEPT !.elements[o].incomingRelations = RemoveFirst(@, id)]
        n == ElementIndex(m1, data.targetId)
    IN IF n = 0 THEN m1
       ELSE [m1 EXCEPT !.elements[n].incomingRelations = PushUnique(@, id)]
  ELSE m

\* updateRelationship, "Update fields", on the relationship object rel
relationshipFields(rel, data) ==
  LET r1 == IF data.type # Undefined THEN [rel EXCEPT !.type = Trim(data.type)] ELSE rel
      r2 == IF data.sourceId # Undefined THEN [r1 EXCEPT !.sourceId = Trim(data.sourceId)] ELSE r1
      r3 == IF data.targetId # Undefined THEN [r2 EXCEPT !.targetId = Trim(data.targetId)] ELSE r2
  IN withProperties(r3, data)

\* updateRelationship from "Validate source element if being changed" to the end.
\* rel is the relationship object found before the await, with the field values
\* it has now; attached says whether it is still the entry of the array;
\* previousSourceId/previousTargetId were read before the await.
updateRelationshipBody(m, id, data, rel, attached, previousSourceId, previousTargetId) ==
  IF ~Falsy(data.sourceId) /\ data.sourceId # rel.sourceId /\ ~HasElement(m, data.sourceId)
  THEN Throw(m, "NotFoundError")
  ELSE IF ~Falsy(data.targetId) /\ data.targetId # rel.targetId /\ ~HasElement(m, data.targetId)
  THEN Throw(m, "NotFoundError")
  ELSE
    LET newSourceId == IF Falsy(data.sourceId) THEN rel.sourceId ELSE data.sourceId
        newTargetId == IF Falsy(data.targetId) THEN rel.targetId ELSE data.targetId
    IN IF newSourceId = newTargetId THEN Throw(m, "ValidationError")
       ELSE
         LET m1 == migrateSource(m, id, data, previousSourceId)
             m2 == migrateTarget(m1, id, data, previousTargetId)
         IN IF attached
            THEN Ok([m2 EXCEPT !.relationships[RelationshipIndex(m2, id)] =
                                  relationshipFields(rel, data)])
            ELSE Ok(m2)

\* updateRelationship after `await this.validateRelationshipType(data.type)`
updateRelationshipResume(m, id, data, rel, attached, previousSourceId, previousTargetId) ==
  IF ~validateRelationshipType(data.type) THEN Throw(m, "ValidationError")
  ELSE updateRelationshipBody(m, id, data, rel, attached, previousSourceId, previousTargetId)

updateRelationship(m, id, data) ==
  IF ~HasRelationship(m, id) THEN Throw(m, "NotFoundError")
  ELSE
    LET relationship == getRelationship(m, id)
    IN IF updateRelationshipAwaits(m, id, data)
       THEN updateRelationshipResume(m, id, data, relationship, TRUE,
                                     relationship.sourceId, relationship.targetId)
       ELSE updateRelationshipBody(m, id, data, relationship, TRUE,
                                   relationship.sourceId, relationship.targetId)

\* deleteRelationship, the loop "Remove from views"
removeFromViews(views, id) ==
  [v \in 1..Len(views) |-> [views[v] EXCEPT !.relationships = RemoveFirst(@, id)]]

deleteRelationship(m, id) ==
  IF ~HasRelationship(m, id) THEN Throw(m, "NotFoundError")
  ELSE
    LET relationshipIndex == RelationshipIndex(m, id)
        relationship == m.relationships[relationshipIndex]
        s == ElementIndex(m, relationship.sourceId)
        m1 == IF s = 0 THEN m
              ELSE [m EXCEPT !.elements[s].outgoingRelations = RemoveFirst(@, id)]
        t == ElementIndex(m1, relationship.targetId)
        m2 == IF t = 0 THEN m1
              ELSE [m1 EXCEPT !.elements[t].incomingRelations = RemoveFirst(@, id)]
        m3 == [m2 EXCEPT !.views = removeFromViews(@, id)]
    IN Ok([m3 EXCEPT !.relationships = SpliceAt(@, relationshipIndex)])

----
\* View operations

\* for (const elementId of ids) { element.inViews: push viewId unless included }
RECURSIVE addViewRefs(_, _, _)
addViewRefs(m, viewId, ids) ==
  IF ids = <<>> THEN m
  ELSE
    LET e == ElementIndex(m, Head(ids))
        m1 == IF e = 0 THEN m
              ELSE [m EXCEPT !.elements[e].inViews = PushUnique(@, viewId)]
    IN addViewRefs(m1, viewId, Tail(ids))

\* for (const elementId of ids) { element.inViews: splice the first viewId }
RECURSIVE dropViewRefs(_, _, _)
dropViewRefs(m, viewId, ids) ==
  IF ids = <<>> THEN m
  ELSE
    LET e == ElementIndex(m, Head(ids))
        m1 == IF e = 0 THEN m
              ELSE [m EXCEPT !.elements[e].inViews = RemoveFirst(@, viewId)]
    IN dropViewRefs(m1, viewId, Tail(ids))

\* the validation loops of createView/updateView
allElementsExist(m, ids) == \A i \in 1..Len(ids) : HasElement(m, ids[i])
allRelationshipsExist(m, ids) == \A i \in 1..Len(ids) : HasRelationship(m, ids[i])
hierarchyExists(m, pairs) ==
  \A i \in 1..Len(pairs) :
    HasElement(m, pairs[i].parentElement) /\ HasElement(m, pairs[i].childElement)

\* `data.field ? [...data.field] : []`
OrEmptyList(field) == IF field = UndefinedList THEN <<>> ELSE field
OrEmptyPairs(field) == IF field = UndefinedPairs THEN <<>> ELSE field

createView(m, data, gen) ==
  IF BlankOrMissing(data.name) THEN Throw(m, "ValidationError")
  ELSE
    LET identifier == IF BlankOrMissing(data.identifier) THEN gen ELSE data.identifier
    IN IF identifierExists(m, identifier) THEN Throw(m, "DuplicateError")
       ELSE IF data.elements # UndefinedList /\ ~allElementsExist(m, data.elements)
       THEN Throw(m, "NotFoundError")
       ELSE IF data.relationships # UndefinedList /\ ~allRelationshipsExist(m, data.relationships)
       THEN Throw(m, "NotFoundError")
       ELSE IF data.nodeHierarchy # UndefinedPairs /\ ~hierarchyExists(m, data.nodeHierarchy)
       THEN Throw(m, "NotFoundError")
       ELSE
         LET view == [id |-> identifier, name |-> Trim(data.name),
                      properties |-> propertiesOrNone(data),
                      elements |-> OrEmptyList(data.elements),
                      relationships |-> OrEmptyList(data.relationships),
                      nodeHierarchy |-> OrEmptyPairs(data.nodeHierarchy)]
             m1 == [m EXCEPT !.views = Append(@, view)]
         IN Ok(addViewRefs(m1, identifier, view.elements))

\* updateView, "Update node hierarchy"
updateViewHierarchy(m, v, data) ==
  IF data.nodeHierarchy = UndefinedPairs THEN Ok(m)
  ELSE IF ~hierarchyExists(m, data.nodeHierarchy) THEN Throw(m, "NotFoundError")
  ELSE Ok([m EXCEPT !.views[v].nodeHierarchy = data.nodeHierarchy])

\* updateView, "Update relationships" and what follows
updateViewRelationships(m, v, data) ==
  IF data.relationships = UndefinedList THEN updateViewHierarchy(m, v, data)
  ELSE IF ~allRelationshipsExist(m, data.relationships) THEN Throw(m, "NotFoundError")
  ELSE updateViewHierarchy([m EXCEPT !.views[v].relationships = data.relationships], v, data)

\* an update of the elements that leaves the previous elements' inViews alone
updateViewElementsKeepRefs(m, id, v, data, previousElements) ==
  IF data.elements = UndefinedList THEN updateViewRelationships(m, v, data)
  ELSE IF ~allElementsExist(m, data.elements) THEN Throw(m, "NotFoundError")
  ELSE
    LET m2 == [m EXCEPT !.views[v].elements = data.elements]
    IN updateViewRelationships(addViewRefs(m2, id, data.elements), v, data)

\* updateView, "Update elements" and what follows
updateViewElements(m, id, v, data, previousElements) ==
  IF data.elements = UndefinedList THEN updateViewRelationships(m, v, data)
  ELSE
    LET m1 == dropViewRefs(m, id, previousElements)
    IN IF ~allElementsExist(m1, data.elements) THEN Throw(m1, "NotFoundError")
       ELSE
         LET m2 == [m1 EXCEPT !.views[v].elements = data.elements]
         IN updateViewRelationships(addViewRefs(m2, id, data.elements), v, data)

updateView(m, id, data) ==
  IF ~HasView(m, id) THEN Throw(m, "NotFoundError")
  ELSE
    LET v == ViewIndex(m, id)
        previousElements == m.views[v].elements
    IN IF data.name # Undefined /\ Trim(data.name) = "" THEN Throw(m, "ValidationError")
       ELSE
         LET m1 == IF data.name # Undefined
                   THEN [m EXCEPT !.views[v].name = Trim(data.name)]
                   ELSE m
             m2 == [m1 EXCEPT !.views[v] = withProperties(@, data)]
         IN updateViewElements(m2, id, v, data, previousElements)

\* a delete that splices the view and leaves the elements' inViews alone
deleteViewKeepingRefs(m, id) ==
  IF ~HasView(m, id) THEN Throw(m, "NotFoundError")
  ELSE Ok([m EXCEPT !.views = SpliceAt(@, ViewIndex(m, id))])

deleteView(m, id) ==
  IF ~HasView(m, id) THEN Throw(m, "NotFoundError")
  ELSE
    LET viewIndex == ViewIndex(m, id)
        m1 == dropViewRefs(m, id, m.views[viewIndex].elements)
    IN Ok([m1 EXCEPT !.views = SpliceAt(@, viewIndex)])

\* an add that pushes the hierarchy pair without looking for it first
addElementToViewAppendingPair(m, viewId, elementId, parentElementId) ==
  IF ~HasView(m, viewId) THEN Throw(m, "NotFoundError")
  ELSE IF ~HasElement(m, elementId) THEN Throw(m, "NotFoundError")
  ELSE
    LET v == ViewIndex(m, viewId)
        e == ElementIndex(m, elementId)
        m1 == [m EXCEPT !.views[v].elements = PushUnique(@, elementId),
                        !.elements[e].inViews = PushUnique(@, viewId)]
    IN IF Falsy(parentElementId) THEN Ok(m1)
       ELSE IF ~HasElement(m1, parentElementId) THEN Throw(m1, "NotFoundError")
       ELSE
         LET p == ElementIndex(m1, parentElementId)
             m2 == IF Includes(m1.views[v].elements, parentElementId) THEN m1
                   ELSE [m1 EXCEPT !.views[v].elements = Append(@, parentElementId),
                                   !.elements[p].inViews = PushUnique(@, viewId)]
             hierarchyEntry == [parentElement |-> parentElementId, childElement |-> elementId]
         IN Ok([m2 EXCEPT !.views[v].nodeHierarchy = Append(@, hierarchyEntry)])

addElementToView(m, viewId, elementId, parentElementId) ==
  IF ~HasView(m, viewId) THEN Throw(m, "NotFoundError")
  ELSE IF ~HasElement(m, elementId) THEN Throw(m, "NotFoundError")
  ELSE
    LET v == ViewIndex(m, viewId)
        e == ElementIndex(m, elementId)
        m1 == [m EXCEPT !.views[v].elements = PushUnique(@, elementId),
                        !.elements[e].inViews = PushUnique(@, viewId)]
    IN IF Falsy(parentElementId) THEN Ok(m1)
       ELSE IF ~HasElement(m1, parentElementId) THEN Throw(m1, "NotFoundError")
       ELSE
         LET p == ElementIndex(m1, parentElementId)
             m2 == IF Includes(m1.views[v].elements, parentElementId) THEN m1
                   ELSE [m1 EXCEPT !.views[v].elements = Append(@, parentElementId),
                                   !.elements[p].inViews = PushUnique(@, viewId)]
             hierarchyEntry == [parentElement |-> parentElementId, childElement |-> elementId]
         IN Ok([m2 EXCEPT !.views[v].nodeHierarchy = PushUnique(@, hierarchyEntry)])

\* removeElementFromView, the relationships of the view that touch elementId
RECURSIVE relationshipsToRemove(_, _, _)
relationshipsToRemove(m, relIds, elementId) ==
  IF relIds = <<>> THEN <<>>
  ELSE
    LET relId == Head(relIds)
        touches == /\ HasRelationship(m, relId)
                   /\ \/ getRelationship(m, relId).sourceId = elementId
                      \/ getRelationship(m, relId).targetId = elementId
    IN (IF touches THEN <<relId>> ELSE <<>>)
         \o relationshipsToRemove(m, Tail(relIds), elementId)

RECURSIVE removeEach(_, _)
removeEach(seq, xs) ==
  IF xs = <<>> THEN seq ELSE removeEach(RemoveFirst(seq, Head(xs)), Tail(xs))

removeElementFromView(m, viewId, elementId) ==
  IF ~HasView(m, viewId) THEN Throw(m, "NotFoundError")
  ELSE
    LET v == ViewIndex(m, viewId)
        m1 == [m EXCEPT !.views[v].elements = RemoveFirst(@, elementId)]
        e == ElementIndex(m1, elementId)
        m2 == IF e = 0 THEN m1
              ELSE [m1 EXCEPT !.elements[e].inViews = RemoveFirst(@, viewId)]
        m3 == [m2 EXCEPT !.views[v].nodeHierarchy = FilterHierarchy(@, elementId)]
        gone == relationshipsToRemove(m3, m3.views[v].relationships, elementId)
    IN Ok([m3 EXCEPT !.views[v].relationships = removeEach(@, gone)])

addRelationshipToView(m, viewId, relationshipId) ==
  IF ~HasView(m, viewId) THEN Throw(m, "NotFoundError")
  ELSE IF ~HasRelationship(m, relationshipId) THEN Throw(m, "NotFoundError")
  ELSE
    LET relationship == getRelationship(m, relationshipId)
        v == ViewIndex(m, viewId)
    IN IF ~HasElement(m, relationship.sourceId) THEN Throw(m, "NotFoundError")
       ELSE IF ~HasElement(m, relationship.targetId) THEN Throw(m, "NotFoundError")
       ELSE
         LET s == ElementIndex(m, relationship.sourceId)
             t == ElementIndex(m, relationship.targetId)
             m1 == IF Includes(m.views[v].elements, relationship.sourceId) THEN m
                   ELSE [m EXCEPT !.views[v].elements = Append(@, relationship.sourceId),
                                  !.elements[s].inViews = PushUnique(@, viewId)]
             m2 == IF Includes(m1.views[v].elements, relationship.targetId) THEN m1
                   ELSE [m1 EXCEPT !.views[v].elements = Append(@, relationship.targetId),
                                   !.elements[t].inViews = PushUnique(@, viewId)]
         IN Ok([m2 EXCEPT !.views[v].relationships = PushUnique(@, relationshipId)])

removeRelationshipFromView(m, viewId, relationshipId) ==
  IF ~HasView(m, viewId) THEN Throw(m, "NotFoundError")
  ELSE Ok([m EXCEPT !.views[ViewIndex(m, viewId)].relationships = RemoveFirst(@, relationshipId)])

----
\* Property operations

\* getPropertyDefinition(id) !== null
HasPropertyDefinition(m, id) ==
  \E i \in 1..Len(m.propertyDefinitions) : m.propertyDefinitions[i].identifier = id

\* findEntity(id).type: the elements are searched first, then the relationships,
\* then the views; "none" when findEntity returns null
findEntity(m, id) ==
  IF HasElement(m, id) THEN "element"
  ELSE IF HasRelationship(m, id) THEN "relationship"
  ELSE IF HasView(m, id) THEN "view"
  ELSE "none"

\* findEntity(id).entity.properties
entityProperties(m, id) ==
  CASE findEntity(m, id) = "element" -> getElement(m, id).properties
    [] findEntity(m, id) = "relationship" -> getRelationship(m, id).properties
    [] findEntity(m, id) = "view" -> getView(m, id).properties

\* a write to the properties of the object findEntity(id) returned
withEntityProperties(m, id, properties) ==
  CASE findEntity(m, id) = "element" ->
         [m EXCEPT !.elements[ElementIndex(m, id)].properties = properties]
    [] findEntity(m, id) = "relationship" ->
         [m EXCEPT !.relationships[RelationshipIndex(m, id)].properties = properties]
    [] findEntity(m, id) = "view" ->
         [m EXCEPT !.views[ViewIndex(m, id)].properties = properties]

createPropertyDefinition(m, data) ==
  IF BlankOrMissing(data.identifier) THEN Throw(m, "ValidationError")
  ELSE IF BlankOrMissing(data.name) THEN Throw(m, "ValidationError")
  ELSE IF HasPropertyDefinition(m, Trim(data.identifier)) THEN Throw(m, "DuplicateError")
  ELSE Ok([m EXCEPT !.propertyDefinitions =
                      Append(@, [identifier |-> Trim(data.identifier),
                                 name |-> Trim(data.name)])])

\* an assignment that does not look for the definition
assignPropertyUndefined(m, targetId, propertyDefId, value) ==
  IF findEntity(m, targetId) = "none" THEN Throw(m, "NotFoundError")
  ELSE Ok(withEntityProperties(m, targetId,
                               PutKey(entityProperties(m, targetId), propertyDefId, value)))

assignProperty(m, targetId, propertyDefId, value) ==
  IF ~HasPropertyDefinition(m, propertyDefId) THEN Throw(m, "NotFoundError")
  ELSE IF findEntity(m, targetId) = "none" THEN Throw(m, "NotFoundError")
  ELSE Ok(withEntityProperties(m, targetId,
                               PutKey(entityProperties(m, targetId), propertyDefId, value)))

updateProperty(m, targetId, propertyDefId, value) ==
  IF ~HasPropertyDefinition(m, propertyDefId) THEN Throw(m, "NotFoundError")
  ELSE IF findEntity(m, targetId) = "none" THEN Throw(m, "NotFoundError")
  ELSE IF ~HasKey(entityProperties(m, targetId), propertyDefId) THEN Throw(m, "NotFoundError")
  ELSE Ok(withEntityProperties(m, targetId,
                               PutKey(entityProperties(m, targetId), propertyDefId, value)))

isPropertyDefinitionUsed(m, propertyDefId) ==
  \/ \E i \in 1..Len(m.elements) : HasKey(m.elements[i].properties, propertyDefId)
  \/ \E i \in 1..Len(m.relationships) : HasKey(m.relationships[i].properties, propertyDefId)
  \/ \E i \in 1..Len(m.views) : HasKey(m.views[i].properties, propertyDefId)

\* propertyDefinitions.findIndex(pd => pd.identifier === id), then splice(index, 1)
removePropertyDefinition(m, propertyDefId) ==
  IF ~HasPropertyDefinition(m, propertyDefId) THEN m
  ELSE
    LET defs == m.propertyDefinitions
        index == CHOOSE i \in 1..Len(defs) :
                   /\ defs[i].identifier = propertyDefId
                   /\ \A j \in 1..(i-1) : defs[j].identifier # propertyDefId
    IN [m EXCEPT !.propertyDefinitions = SpliceAt(defs, index)]

\* a cascade that removes the definition without asking whether it is used
deletePropertyCascadeAlways(m, targetId, propertyDefId, opts) ==
  IF findEntity(m, targetId) = "none" THEN Throw(m, "NotFoundError")
  ELSE IF ~HasKey(entityProperties(m, targetId), propertyDefId) THEN Throw(m, "NotFoundError")
  ELSE
    LET m1 == withEntityProperties(m, targetId,
                                   DeleteKey(entityProperties(m, targetId), propertyDefId))
    IN IF opts.cascade
       THEN Ok(removePropertyDefinition(m1, propertyDefId))
       ELSE Ok(m1)

\* opts is { cascade: false, ...options }
deleteProperty(m, targetId, propertyDefId, opts) ==
  IF findEntity(m, targetId) = "none" THEN Throw(m, "NotFoundError")
  ELSE IF ~HasKey(entityProperties(m, targetId), propertyDefId) THEN Throw(m, "NotFoundError")
  ELSE
    LET m1 == withEntityProperties(m, targetId,
                                   DeleteKey(entityProperties(m, targetId), propertyDefId))
    IN IF opts.cascade /\ ~isPropertyDefinitionUsed(m1, propertyDefId)
       THEN Ok(removePropertyDefinition(m1, propertyDefId))
       ELSE Ok(m1)

----
\* Transactions

\* new ModelTransaction(this.model): JSON.parse(JSON.stringify(snapshot)).  The
\* round trip rebuilds every object and array and keeps strings as they are; a
\* missing member stays missing (Undefined here).  The copy has the content of m and
\* shares no object with it: `aliased` records when the two become one object.
DeepClone(m) ==
  [elements |-> [i \in 1..Len(m.elements) |-> m.elements[i]],
   relationships |-> [i \in 1..Len(m.relationships) |-> m.relationships[i]],
   views |-> [i \in 1..Len(m.views) |-> m.views[i]],
   propertyDefinitions |->
     [i \in 1..Len(m.propertyDefinitions) |-> m.propertyDefinitions[i]]]

----
\* State

VARIABLES
  model,        \* this.model: the ModelData the manipulator works on
  modified,     \* this.modified
  transaction,  \* the handle beginTransaction returned last: <<>> before the first
                \* one, else <<[snapshot |-> its snapshot,
                \*             begun |-> the content of the model when it was taken,
                \*             held |-> the ModelData object that getModel() returned
                \*                      when it was taken, with its content now,
                \*             heldLive |-> that object is still this.model,
                \*             open |-> neither commit nor rollback was called since]>>
  aliased,      \* this.model and the handle's snapshot are the same object
  persisted,    \* the model the loader reads from the file as last written
  disk,         \* [path |-> loader.getPath(), files |-> the file system: for each
                \*  path whether a file exists there and the model it holds]
  pending,      \* the suspended calls, in the order their awaits resume
  serial,       \* the model the calls made so far yield when run one after the other
  calls,        \* number of calls made
  last          \* the call that ran last and how it ended

vars == <<model, modified, transaction, aliased, persisted, disk, pending, serial, calls, last>>

----
\* Inputs

MissingId == "zz"

\* createElement: a well-formed element under each kind of identifier, and
\* malformed ones under a fresh and under an existing identifier
CreateElementInputs ==
  {d \in [name : {" X", " "}, type : {"Node", "Bogus", ""},
          identifier : {"a", "d", "r", "v", Undefined}] :
     \/ d.name = " X" /\ d.type = "Node"
     \/ d.identifier \in {"a", "d"} /\ (d.name = " X" \/ d.type = "Node")}

UpdateElementInputs ==
  [name : {Undefined, "Y", " "}, type : {Undefined, "Goal", "Bogus", ""}]

UpdateElementCalls ==
  [id : {"a"}, data : UpdateElementInputs]
    \cup {[id |-> MissingId, data |-> [name |-> "Y", type |-> Undefined]]}

DeleteElementCalls ==
  [id : {"a", "b", "c"}, opts : [cascade : BOOLEAN, validate : BOOLEAN]]
    \cup {[id |-> MissingId, opts |-> [cascade |-> TRUE, validate |-> TRUE]]}

\* createRelationship: a well-formed relationship under each kind of identifier, and
\* other endpoints and malformed ones under a fresh and under an existing identifier
CreateRelationshipInputs ==
  {d \in [type : {"Serving", "Bogus"}, sourceId : {"a", "c", MissingId, ""},
          targetId : {"b", "c"}, identifier : {"r", "s", "a", "v", Undefined}] :
     /\ d.sourceId \in {MissingId, ""} => d.targetId = "b"
     /\ d.type = "Bogus" => d.sourceId = "a" /\ d.targetId = "b"
     /\ (d.type = "Bogus" \/ d.sourceId # "a" \/ d.targetId # "b")
          => d.identifier \in {"r", "s"}}
    \cup
  \* a relationship of a one-to-one type, under a fresh and a generated identifier
  {[type |-> "Assignment", sourceId |-> "a", targetId |-> "b", identifier |-> i] :
     i \in {"s", Undefined}}

\* updateRelationship: every change of endpoints, and a change of type alone or
\* together with a new source
UpdateRelationshipInputs ==
  {d \in [type : {Undefined, "Flow", "Bogus"},
          sourceId : {Undefined, "b", "c", MissingId, ""},
          targetId : {Undefined, "a", "c"}] :
     /\ d.type = "Flow" => d.sourceId \in {Undefined, "c"} /\ d.targetId = Undefined
     /\ d.type = "Bogus" => d.sourceId = Undefined /\ d.targetId = Undefined}
    \cup
  \* blank fields: a blank target alone or with a blank source, a blank type
  {[type |-> Undefined, sourceId |-> x, targetId |-> ""] : x \in {Undefined, ""}}
    \cup
  {[type |-> t, sourceId |-> Undefined, targetId |-> Undefined] : t \in {"", " "}}

UpdateRelationshipCalls ==
  [id : {"r"}, data : UpdateRelationshipInputs]
    \cup {[id |-> MissingId,
           data |-> [type |-> Undefined, sourceId |-> "c", targetId |-> Undefined]]}

RelationshipIdInputs == {"r", "s", MissingId}

ElementListInputs ==
  {UndefinedList, <<>>, <<"a">>, <<"c">>, <<"a", "b">>, <<"c", "c">>, <<MissingId>>,
   <<"c", MissingId>>}

RelationshipListInputs == {UndefinedList, <<>>, <<"r">>, <<"r", "r">>, <<MissingId>>}

Pair(p, c) == [parentElement |-> p, childElement |-> c]

HierarchyInputs ==
  {UndefinedPairs, <<>>, <<Pair("a", "b")>>, <<Pair("b", "c")>>, <<Pair(MissingId, "b")>>}

\* the list fields of a view input: at most one of them supplied, or all three
ViewFieldInputs ==
  {f \in [elements : ElementListInputs, relationships : RelationshipListInputs,
          nodeHierarchy : HierarchyInputs] :
     \/ f.elements = UndefinedList /\ f.relationships = UndefinedList
     \/ f.elements = UndefinedList /\ f.nodeHierarchy = UndefinedPairs
     \/ f.relationships = UndefinedList /\ f.nodeHierarchy = UndefinedPairs
     \/ f.elements = <<"a", "b">> /\ f.relationships = <<"r">>
          /\ f.nodeHierarchy = <<Pair("a", "b")>>
     \/ f.elements = <<"c", MissingId>> /\ f.relationships = <<"r">>
          /\ f.nodeHierarchy = <<Pair("b", "c")>>}

WithFields(rec, f) ==
  [name |-> rec.name, identifier |-> rec.identifier, elements |-> f.elements,
   relationships |-> f.relationships, nodeHierarchy |-> f.nodeHierarchy]

NoViewFields ==
  [elements |-> UndefinedList, relationships |-> UndefinedList,
   nodeHierarchy |-> UndefinedPairs]

\* createView: every choice of lists under a fresh identifier, no lists or missing
\* members under the other kinds of identifier, and a blank name
CreateViewInputs ==
  {WithFields([name |-> "V", identifier |-> "w"], f) : f \in ViewFieldInputs}
    \cup {WithFields([name |-> "V", identifier |-> i], f) :
            i \in {"a", "r", Undefined},
            f \in {NoViewFields, [NoViewFields EXCEPT !.elements = <<MissingId>>]}}
    \cup {WithFields([name |-> "", identifier |-> i],
                     [elements |-> <<"c">>, relationships |-> UndefinedList,
                      nodeHierarchy |-> UndefinedPairs]) : i \in {"w", "a"}}

\* updateView: every choice of lists, a new name alone or with lists that name a
\* missing member, and a blank name
UpdateViewInputs ==
  {[name |-> Undefined, elements |-> f.elements,
    relationships |-> f.relationships, nodeHierarchy |-> f.nodeHierarchy] :
     f \in ViewFieldInputs}
    \cup {[name |-> "W", elements |-> f.elements,
           relationships |-> f.relationships, nodeHierarchy |-> f.nodeHierarchy] :
            f \in {NoViewFields, [NoViewFields EXCEPT !.elements = <<"c", MissingId>>],
                   [NoViewFields EXCEPT !.relationships = <<MissingId>>]}}
    \cup {[name |-> " ", elements |-> <<"c">>, relationships |-> UndefinedList,
           nodeHierarchy |-> UndefinedPairs]}

UpdateViewCalls ==
  [id : {"v"}, data : UpdateViewInputs]
    \cup {[id |-> MissingId,
           data |-> [name |-> "W", elements |-> UndefinedList,
                     relationships |-> UndefinedList, nodeHierarchy |-> UndefinedPairs]]}

ViewIdInputs == {"v", "w", MissingId}

AddElementToViewCalls ==
  [viewId : {"v"}, elementId : {"b", "c", MissingId}, parentElementId : {Undefined, "a", MissingId}]
    \cup {[viewId |-> MissingId, elementId |-> "c", parentElementId |-> Undefined]}

RemoveElementFromViewCalls ==
  [viewId : {"v"}, elementId : {"a", "b", "c"}]
    \cup {[viewId |-> MissingId, elementId |-> "a"]}

AddRelationshipToViewCalls ==
  [viewId : {"v", "w"}, relationshipId : RelationshipIdInputs]
    \cup {[viewId |-> MissingId, relationshipId |-> "r"]}

RemoveRelationshipFromViewCalls ==
  [viewId : {"v"}, relationshipId : {"r", "s"}]
    \cup {[viewId |-> MissingId, relationshipId |-> "r"]}

----
\* Initial state: the manipulator right after construction, this.model = loader.load()

EmptyModel ==
  [elements |-> <<>>, relationships |-> <<>>, views |-> <<>>, propertyDefinitions |-> <<>>]

Element(id, name, type, inViews, out, in) ==
  [id |-> id, name |-> name, type |-> type, properties |-> NoProperties,
   inViews |-> inViews,
   outgoingRelations |-> out, incomingRelations |-> in]

\* a loaded model: three elements, r from a to b, and a view v showing a, b and r
\* with b nested in a; the loader derives the back-reference lists
BasicModel ==
  [elements |-> << Element("a", "X", "Node", <<"v">>, <<"r">>, <<>>),
                   Element("b", "X", "Node", <<"v">>, <<>>, <<"r">>),
                   Element("c", "X", "Node", <<>>, <<>>, <<>>) >>,
   relationships |-> << [id |-> "r", sourceId |-> "a", targetId |-> "b", type |-> "Serving",
                         properties |-> NoProperties] >>,
   views |-> << [id |-> "v", name |-> "V", properties |-> NoProperties,
                 elements |-> <<"a", "b">>,
                 relationships |-> <<"r">>, nodeHierarchy |-> <<Pair("a", "b")>>] >>,
   propertyDefinitions |-> <<>>]

LoadedModels == {EmptyModel, BasicModel}

\* the paths of the file system: the file the server starts with, a second model
\* file, a path for a new file, and a path that leaves the base directory
Paths == {"model.xml", "other.xml", "new.xml", "../up.xml"}

NoFile == [exists |-> FALSE, content |-> EmptyModel]
File(content) == [exists |-> TRUE, content |-> content]

\* the loader constructed over model.xml, which holds m
Mounted(m) ==
  [path |-> "model.xml",
   files |-> [p \in Paths |-> IF p = "model.xml" THEN File(m) ELSE NoFile]]

\* the input of a call that takes none besides its ids
NoInput == <<>>

NoCall ==
  [op |-> "none", err |-> "none", id |-> "", arg |-> "", cascade |-> FALSE,
   data |-> NoInput]

Init ==
  /\ model \in LoadedModels
  /\ modified = FALSE
  /\ transaction = <<>>
  /\ aliased = FALSE
  /\ persisted = model
  /\ disk = Mounted(model)
  /\ pending = <<>>
  /\ serial = model
  /\ calls = 0
  /\ last = NoCall

----
\* Calls that the caller awaits before making the next one

\* a write to the live model is a write to the snapshot when both are one object
Shared(tx, isAliased, m) ==
  IF tx = <<>> THEN tx
  ELSE IF isAliased THEN <<[tx[1] EXCEPT !.snapshot = m]>>
  ELSE IF tx[1].heldLive THEN <<[tx[1] EXCEPT !.held = m]>>
  ELSE tx

\* a call that leaves the flag as it was
SettleUnmarked(op, res, id, arg, cascade, data) ==
  /\ pending = <<>>
  /\ calls' = calls + 1
  /\ model' = res.model
  /\ transaction' = Shared(transaction, aliased, res.model)
  /\ serial' = res.model
  /\ last' = [op |-> op, err |-> res.err, id |-> id, arg |-> arg, cascade |-> cascade,
              data |-> data]
  /\ UNCHANGED <<modified, aliased, persisted, disk, pending>>

\* the effect of one awaited call with outcome res
Settle(op, res, id, arg, cascade, data) ==
  /\ pending = <<>>
  /\ calls' = calls + 1
  /\ model' = res.model
  /\ modified' = (modified \/ res.err = "none")
  /\ transaction' = Shared(transaction, aliased, res.model)
  /\ serial' = res.model
  /\ last' = [op |-> op, err |-> res.err, id |-> id, arg |-> arg, cascade |-> cascade,
              data |-> data]
  /\ UNCHANGED <<aliased, persisted, disk, pending>>

\* what a created entity's id turns out to be
givenOr(identifier, gen) == IF BlankOrMissing(identifier) THEN gen ELSE identifier

CreateElement ==
  \E data \in CreateElementInputs :
    /\ calls < MaxCalls
    /\ Settle("createElement", createElement(model, data, GenIds.elem),
           givenOr(data.identifier, GenIds.elem), "", FALSE, data)

UpdateElement ==
  \E c \in UpdateElementCalls :
    /\ calls < MaxCalls
    /\ Settle("updateElement", updateElement(model, c.id, c.data), c.id, "", FALSE,
           c.data)

DeleteElement ==
  \E c \in DeleteElementCalls :
    /\ calls < MaxCalls
    /\ Settle("deleteElement", deleteElement(model, c.id, c.opts), c.id, "", c.opts.cascade,
           c.opts)

CreateRelationship ==
  \E data \in CreateRelationshipInputs :
    /\ calls < MaxCalls
    /\ Settle("createRelationship", createRelationship(model, data, GenIds.rel),
           givenOr(data.identifier, GenIds.rel), "", FALSE, data)

UpdateRelationship ==
  \E c \in UpdateRelationshipCalls :
    /\ calls < MaxCalls
    /\ Settle("updateRelationship", updateRelationship(model, c.id, c.data), c.id, "", FALSE,
           c.data)

DeleteRelationship ==
  \E id \in RelationshipIdInputs :
    /\ calls < MaxCalls
    /\ Settle("deleteRelationship", deleteRelationship(model, id), id, "", FALSE, NoInput)

CreateView ==
  \E data \in CreateViewInputs :
    /\ calls < MaxCalls
    /\ Settle("createView", createView(model, data, GenIds.view),
           givenOr(data.identifier, GenIds.view), "", FALSE, data)

UpdateView ==
  \E c \in UpdateViewCalls :
    /\ calls < MaxCalls
    /\ Settle("updateView", updateView(model, c.id, c.data), c.id, "", FALSE, c.data)

DeleteView ==
  \E id \in ViewIdInputs :
    /\ calls < MaxCalls
    /\ Settle("deleteView", deleteView(model, id), id, "", FALSE, NoInput)

AddElementToView ==
  \E c \in AddElementToViewCalls :
    /\ calls < MaxCalls
    /\ Settle("addElementToView",
           addElementToView(model, c.viewId, c.elementId, c.parentElementId),
           c.viewId, c.elementId, FALSE, [parentElementId |-> c.parentElementId])

RemoveElementFromView ==
  \E c \in RemoveElementFromViewCalls :
    /\ calls < MaxCalls
    /\ Settle("removeElementFromView", removeElementFromView(model, c.viewId, c.elementId),
           c.viewId, c.elementId, FALSE, NoInput)

AddRelationshipToView ==
  \E c \in AddRelationshipToViewCalls :
    /\ calls < MaxCalls
    /\ Settle("addRelationshipToView", addRelationshipToView(model, c.viewId, c.relationshipId),
           c.viewId, c.relationshipId, FALSE, NoInput)

RemoveRelationshipFromView ==
  \E c \in RemoveRelationshipFromViewCalls :
    /\ calls < MaxCalls
    /\ Settle("removeRelationshipFromView",
           removeRelationshipFromView(model, c.viewId, c.relationshipId),
           c.viewId, c.relationshipId, FALSE, NoInput)

\* beginTransaction, commitTransaction and rollbackTransaction on the latest handle
Begin ==
  /\ pending = <<>>
  /\ calls' = calls + 1
  /\ transaction' = <<[snapshot |-> DeepClone(model), begun |-> model, held |-> model,
                        heldLive |-> TRUE, open |-> TRUE]>>
  /\ aliased' = FALSE
  /\ last' = [op |-> "beginTransaction", err |-> "none", id |-> "", arg |-> "",
              cascade |-> FALSE, data |-> NoInput]
  /\ UNCHANGED <<model, modified, persisted, disk, pending, serial>>

\* a commit that installs the handle's snapshot
CommitInstallingSnapshot ==
  /\ pending = <<>>
  /\ transaction # <<>>
  /\ calls' = calls + 1
  /\ modified' = TRUE
  /\ model' = transaction[1].snapshot
  /\ serial' = transaction[1].snapshot
  /\ transaction' = <<[transaction[1] EXCEPT !.open = FALSE]>>
  /\ last' = [op |-> "commitTransaction", err |-> "none", id |-> "", arg |-> "",
              cascade |-> FALSE, data |-> NoInput]
  /\ UNCHANGED <<aliased, persisted, disk, pending>>

Commit ==
  /\ pending = <<>>
  /\ transaction # <<>>
  /\ calls' = calls + 1
  /\ modified' = TRUE
  /\ transaction' = <<[transaction[1] EXCEPT !.open = FALSE]>>
  /\ last' = [op |-> "commitTransaction", err |-> "none", id |-> "", arg |-> "",
              cascade |-> FALSE, data |-> NoInput]
  /\ UNCHANGED <<model, aliased, persisted, disk, pending, serial>>

Rollback ==
  /\ pending = <<>>
  /\ transaction # <<>>
  /\ calls' = calls + 1
  /\ model' = transaction[1].snapshot
  /\ aliased' = TRUE
  /\ serial' = transaction[1].snapshot
  /\ transaction' = <<[transaction[1] EXCEPT !.heldLive = FALSE, !.open = FALSE]>>
  /\ last' = [op |-> "rollbackTransaction", err |-> "none", id |-> "", arg |-> "",
              cascade |-> FALSE, data |-> NoInput]
  /\ UNCHANGED <<modified, persisted, disk, pending>>

\* loader.reload(): the aggregate re-derived from the file as last written
loaderReload(file) == file

\* a reload that resets the flag and keeps the model
ReloadKeepingModel ==
  /\ pending = <<>>
  /\ calls' = calls + 1
  /\ modified' = FALSE
  /\ last' = [op |-> "reload", err |-> "none", id |-> "", arg |-> "", cascade |-> FALSE,
              data |-> [wasModified |-> modified]]
  /\ UNCHANGED <<model, transaction, aliased, persisted, disk, pending, serial>>

\* reload(): this.model = this.loader.reload(); this.modified = false.  The model
\* is a new object: neither the handle's snapshot nor the object held before
Reload ==
  /\ pending = <<>>
  /\ calls' = calls + 1
  /\ model' = loaderReload(persisted)
  /\ modified' = FALSE
  /\ aliased' = FALSE
  /\ transaction' = IF transaction = <<>> THEN transaction
                    ELSE <<[transaction[1] EXCEPT !.heldLive = FALSE]>>
  /\ serial' = loaderReload(persisted)
  /\ last' = [op |-> "reload", err |-> "none", id |-> "", arg |-> "", cascade |-> FALSE,
              data |-> [wasModified |-> modified]]
  /\ UNCHANGED <<persisted, disk, pending>>

BeginTransaction ==
  /\ calls < MaxCalls
  /\ Begin

CommitTransaction ==
  /\ calls < MaxCalls
  /\ Commit

RollbackTransaction ==
  /\ calls < MaxCalls
  /\ Rollback

Next ==
  \/ CreateElement
  \/ UpdateElement
  \/ CreateRelationship
  \/ UpdateRelationship
  \/ DeleteRelationship
  \/ CreateView
  \/ UpdateView
  \/ DeleteView
  \/ DeleteElement
  \/ AddElementToView
  \/ RemoveElementFromView
  \/ AddRelationshipToView
  \/ RemoveRelationshipFromView
  \/ BeginTransaction
  \/ CommitTransaction
  \/ RollbackTransaction

Spec == Init /\ [][Next]_vars

----
\* Transactions around a few element calls, long enough to roll back twice

TxCreateElementInputs == {[name |-> "X", type |-> "Node", identifier |-> "d"]}
TxDeleteElementCalls == {[id |-> "c", opts |-> [cascade |-> TRUE, validate |-> TRUE]]}

TxCreateElement ==
  \E data \in TxCreateElementInputs :
    /\ calls < MaxTxCalls
    /\ Settle("createElement", createElement(model, data, GenIds.elem),
              givenOr(data.identifier, GenIds.elem), "", FALSE, data)

TxDeleteElement ==
  \E c \in TxDeleteElementCalls :
    /\ calls < MaxTxCalls
    /\ Settle("deleteElement", deleteElement(model, c.id, c.opts),
              c.id, "", c.opts.cascade, c.opts)

TxUpdateElement ==
  \E data \in {[name |-> "Y", type |-> Undefined]} :
    /\ calls < MaxTxCalls
    /\ Settle("updateElement", updateElement(model, "a", data), "a", "", FALSE, data)

TxBegin ==
  /\ calls < MaxTxCalls
  /\ Begin

TxCommit ==
  /\ calls < MaxTxCalls
  /\ Commit

TxRollback ==
  /\ calls < MaxTxCalls
  /\ Rollback

TxReload ==
  /\ calls < MaxTxCalls
  /\ Reload

NextTx ==
  \/ TxCreateElement
  \/ TxDeleteElement
  \/ TxUpdateElement
  \/ TxBegin
  \/ TxCommit
  \/ TxRollback
  \/ TxReload

SpecTx == Init /\ [][NextTx]_vars

----
\* A session on a model with properties: the property calls, reload, save and
\* saveAs, and one call or two of every other operation

Property(key, value) == [key |-> key, value |-> value]

\* the loaded model with two property definitions: p set on element a and on
\* relationship r, q set on view v
ModelWithProperties ==
  [BasicModel EXCEPT
     !.elements[1].properties = {Property("p", "1")},
     !.relationships[1].properties = {Property("p", "1")},
     !.views[1].properties = {Property("q", "1")},
     !.propertyDefinitions = << [identifier |-> "p", name |-> "P"],
                                [identifier |-> "q", name |-> "Q"] >>]

SessionModels == {BasicModel, ModelWithProperties}

InitSession ==
  /\ model \in SessionModels
  /\ modified = FALSE
  /\ transaction = <<>>
  /\ aliased = FALSE
  /\ persisted = model
  /\ disk = Mounted(model)
  /\ pending = <<>>
  /\ serial = model
  /\ calls = 0
  /\ last = NoCall

CreatePropertyDefinitionInputs ==
  {[identifier |-> "p", name |-> "P"], [identifier |-> " p", name |-> "P"],
   [identifier |-> "n", name |-> "N"], [identifier |-> "", name |-> "N"],
   [identifier |-> "n", name |-> " "]}

\* targets of each kind and a missing one, definitions p and q and a missing one
PropertyCalls ==
  [targetId : {"a", "r", "v"}, propertyDefId : {"p", "q", MissingId}, value : {"2"}]
    \cup {[targetId |-> MissingId, propertyDefId |-> "p", value |-> "2"]}

DeletePropertyCalls ==
  [targetId : {"a", "r", "v"}, propertyDefId : {"p", "q"}, opts : [cascade : BOOLEAN]]
    \cup {[targetId |-> MissingId, propertyDefId |-> "p", opts |-> [cascade |-> TRUE]],
          [targetId |-> "a", propertyDefId |-> MissingId, opts |-> [cascade |-> TRUE]]}

SessionCreatePropertyDefinition ==
  \E data \in CreatePropertyDefinitionInputs :
    /\ calls < MaxSessionCalls
    /\ Settle("createPropertyDefinition", createPropertyDefinition(model, data),
              data.identifier, "", FALSE, data)

SessionAssignProperty ==
  \E c \in PropertyCalls :
    /\ calls < MaxSessionCalls
    /\ Settle("assignProperty", assignProperty(model, c.targetId, c.propertyDefId, c.value),
              c.targetId, c.propertyDefId, FALSE, [value |-> c.value])

SessionUpdateProperty ==
  \E c \in PropertyCalls :
    /\ calls < MaxSessionCalls
    /\ Settle("updateProperty", updateProperty(model, c.targetId, c.propertyDefId, c.value),
              c.targetId, c.propertyDefId, FALSE, [value |-> c.value])

SessionDeleteProperty ==
  \E c \in DeletePropertyCalls :
    /\ calls < MaxSessionCalls
    /\ Settle("deleteProperty", deleteProperty(model, c.targetId, c.propertyDefId, c.opts),
              c.targetId, c.propertyDefId, c.opts.cascade, c.opts)

SessionCreateElement ==
  \E data \in {[name |-> "X", type |-> "Node", identifier |-> "d",
                 properties |-> {Property("q", "1")}]} :
    /\ calls < MaxSessionCalls
    /\ Settle("createElement", createElement(model, data, GenIds.elem),
              givenOr(data.identifier, GenIds.elem), "", FALSE, data)

SessionUpdateElement ==
  \E data \in {[name |-> "Y", type |-> Undefined, properties |-> {Property("x", "1")}]} :
    /\ calls < MaxSessionCalls
    /\ Settle("updateElement", updateElement(model, "a", data), "a", "", FALSE, data)

SessionDeleteElement ==
  \E opts \in {[cascade |-> TRUE, validate |-> TRUE], [cascade |-> FALSE, validate |-> FALSE]} :
    /\ calls < MaxSessionCalls
    /\ Settle("deleteElement", deleteElement(model, "a", opts), "a", "", opts.cascade, opts)

SessionCreateRelationship ==
  \E data \in {[type |-> "Serving", sourceId |-> "c", targetId |-> "b",
                 identifier |-> "s"]} :
    /\ calls < MaxSessionCalls
    /\ Settle("createRelationship", createRelationship(model, data, GenIds.rel),
              givenOr(data.identifier, GenIds.rel), "", FALSE, data)

SessionUpdateRelationship ==
  \E data \in {[type |-> "Flow", sourceId |-> Undefined, targetId |-> Undefined]} :
    /\ calls < MaxSessionCalls
    /\ Settle("updateRelationship", updateRelationship(model, "r", data), "r", "", FALSE, data)

SessionDeleteRelationship ==
  /\ calls < MaxSessionCalls
  /\ Settle("deleteRelationship", deleteRelationship(model, "r"), "r", "", FALSE, NoInput)

SessionCreateView ==
  \E data \in {WithFields([name |-> "V", identifier |-> "w"],
                           [NoViewFields EXCEPT !.elements = <<"c">>])} :
    /\ calls < MaxSessionCalls
    /\ Settle("createView", createView(model, data, GenIds.view),
              givenOr(data.identifier, GenIds.view), "", FALSE, data)

SessionUpdateView ==
  \E data \in {[name |-> "W", elements |-> UndefinedList, relationships |-> UndefinedList,
                 nodeHierarchy |-> UndefinedPairs]} :
    /\ calls < MaxSessionCalls
    /\ Settle("updateView", updateView(model, "v", data), "v", "", FALSE, data)

SessionDeleteView ==
  /\ calls < MaxSessionCalls
  /\ Settle("deleteView", deleteView(model, "v"), "v", "", FALSE, NoInput)

SessionAddElementToView ==
  /\ calls < MaxSessionCalls
  /\ Settle("addElementToView", addElementToView(model, "v", "c", Undefined),
            "v", "c", FALSE, [parentElementId |-> Undefined])

SessionRemoveElementFromView ==
  /\ calls < MaxSessionCalls
  /\ Settle("removeElementFromView", removeElementFromView(model, "v", "a"),
            "v", "a", FALSE, NoInput)

SessionAddRelationshipToView ==
  /\ calls < MaxSessionCalls
  /\ Settle("addRelationshipToView", addRelationshipToView(model, "v", "r"),
            "v", "r", FALSE, NoInput)

SessionRemoveRelationshipFromView ==
  /\ calls < MaxSessionCalls
  /\ Settle("removeRelationshipFromView", removeRelationshipFromView(model, "v", "r"),
            "v", "r", FALSE, NoInput)

SessionReload ==
  /\ calls < MaxSessionCalls
  /\ Reload

\* save(path?) and saveAs(path): throw new Error('Not implemented: ...')
save(m) == Throw(m, "Error")
saveAs(m) == Throw(m, "Error")

\* the options the callers of save pass
SaveOptions == [validate : BOOLEAN]

SessionSave ==
  \E options \in SaveOptions :
    /\ calls < MaxSessionCalls
    /\ Settle("save", save(model), "", "", FALSE, options)

SessionSaveAs ==
  \E options \in SaveOptions :
    /\ calls < MaxSessionCalls
    /\ Settle("saveAs", saveAs(model), "", "", FALSE, options)

NextSession ==
  \/ SessionCreatePropertyDefinition
  \/ SessionAssignProperty
  \/ SessionUpdateProperty
  \/ SessionDeleteProperty
  \/ SessionCreateElement
  \/ SessionUpdateElement
  \/ SessionDeleteElement
  \/ SessionCreateRelationship
  \/ SessionUpdateRelationship
  \/ SessionDeleteRelationship
  \/ SessionCreateView
  \/ SessionUpdateView
  \/ SessionDeleteView
  \/ SessionAddElementToView
  \/ SessionRemoveElementFromView
  \/ SessionAddRelationshipToView
  \/ SessionRemoveRelationshipFromView
  \/ SessionReload
  \/ SessionSave
  \/ SessionSaveAs

SpecSession == InitSession /\ [][NextSession]_vars

----
\* The model-file tools of the server (createTools): they work on the manipulator,
\* on the loader's path and on the file system

\* validatePath with mustBeFile: blank paths and traversal sequences are refused, and
\* statSync needs a file at the path (validateModelPath asks for one with checkExists)
validatePath(path, files) ==
  /\ Trim(path) # ""
  /\ path # "../up.xml"
  /\ files[path].exists

\* loader.setPath(path); manipulator.reload()
LoadFrom(path, files) ==
  /\ disk' = [path |-> path, files |-> files]
  /\ model' = loaderReload(files[path].content)
  /\ persisted' = files[path].content
  /\ serial' = loaderReload(files[path].content)
  /\ modified' = FALSE
  /\ aliased' = FALSE
  /\ transaction' = IF transaction = <<>> THEN transaction
                    ELSE <<[transaction[1] EXCEPT !.heldLive = FALSE]>>

\* what a tool invocation leaves in last
ToolCall(op, err, path) ==
  [op |-> op, err |-> err, id |-> "", arg |-> path, cascade |-> FALSE, data |-> NoInput]

\* a creation that does not look for a file at the path
CreateModelOverwriting(path, writes, loads) ==
  LET refused == \/ Falsy(path)
                 \/ modified
                 \/ ~validatePath(path, disk.files)
                 \/ ~writes
      written == [disk.files EXCEPT ![path] = File(EmptyModel)]
  IN /\ pending = <<>>
     /\ calls' = calls + 1
     /\ IF refused
        THEN /\ last' = ToolCall("createModel", "Error", path)
             /\ UNCHANGED <<model, modified, transaction, aliased, persisted, disk, serial>>
        ELSE IF loads
        THEN /\ last' = ToolCall("createModel", "none", path)
             /\ LoadFrom(path, written)
        ELSE /\ last' = ToolCall("createModel", "Error", path)
             /\ disk' = [disk EXCEPT !.files = written]
             /\ UNCHANGED <<model, modified, transaction, aliased, persisted, serial>>
     /\ UNCHANGED pending

\* createModelHandler: writes tells whether writeFileSync succeeds, loads whether
\* the loader reads the new file
CreateModel(path, writes, loads) ==
  LET refused == \/ Falsy(path)
                 \/ modified
                 \/ ~validatePath(path, disk.files)
                 \/ disk.files[path].exists
                 \/ ~writes
      written == [disk.files EXCEPT ![path] = File(EmptyModel)]
  IN /\ pending = <<>>
     /\ calls' = calls + 1
     /\ IF refused
        THEN /\ last' = ToolCall("createModel", "Error", path)
             /\ UNCHANGED <<model, modified, transaction, aliased, persisted, disk, serial>>
        ELSE IF loads
        THEN /\ last' = ToolCall("createModel", "none", path)
             /\ LoadFrom(path, written)
        ELSE /\ last' = ToolCall("createModel", "Error", path)
             /\ disk' = [disk EXCEPT !.files = written]
             /\ UNCHANGED <<model, modified, transaction, aliased, persisted, serial>>
     /\ UNCHANGED pending

\* setModelPathHandler: unsaved changes are logged and lost
SetModelPath(path, loads) ==
  /\ pending = <<>>
  /\ calls' = calls + 1
  /\ IF Falsy(path) \/ ~validatePath(path, disk.files) \/ ~loads
     THEN /\ last' = ToolCall("setModelPath", "Error", path)
          /\ UNCHANGED <<model, modified, transaction, aliased, persisted, disk, serial>>
     ELSE /\ last' = ToolCall("setModelPath", "none", path)
          /\ LoadFrom(path, disk.files)
  /\ UNCHANGED pending

\* createElementHandler: the element is created before the auto-save, which ends in
\* manipulator.save
createElementHandler(m, input) ==
  IF Falsy(input.type) \/ Falsy(input.name) THEN Throw(m, "Error")
  ELSE LET res == createElement(m, input, GenIds.elem)
       IN IF res.err = "none" /\ input.autoSave THEN Throw(res.model, save(res.model).err)
          ELSE res

ToolPaths == Paths \cup {""}

ToolElementInputs ==
  {[name |-> d.name, type |-> d.type, identifier |-> d.identifier, autoSave |-> autoSave] :
     d \in {c \in CreateElementInputs : c.identifier \in {"a", "d", Undefined}},
     autoSave \in BOOLEAN}

InitTools ==
  /\ model = BasicModel
  /\ modified = FALSE
  /\ transaction = <<>>
  /\ aliased = FALSE
  /\ persisted = BasicModel
  /\ \E other \in {NoFile, File(ModelWithProperties)} :
       disk = [Mounted(BasicModel) EXCEPT !.files["other.xml"] = other]
  /\ pending = <<>>
  /\ serial = model
  /\ calls = 0
  /\ last = NoCall

ToolCreateElement ==
  \E input \in ToolElementInputs :
    /\ calls < MaxToolCalls
    /\ pending = <<>>
    /\ calls' = calls + 1
    /\ model' = createElementHandler(model, input).model
    /\ modified' = (modified \/ (/\ ~Falsy(input.type) /\ ~Falsy(input.name)
                                  /\ createElement(model, input, GenIds.elem).err = "none"))
    /\ transaction' = Shared(transaction, aliased, model')
    /\ serial' = model'
    /\ last' = [op |-> "createElement", err |-> createElementHandler(model, input).err,
                id |-> givenOr(input.identifier, GenIds.elem), arg |-> "",
                cascade |-> FALSE, data |-> input]
    /\ UNCHANGED <<aliased, persisted, disk, pending>>

ToolCreateModel ==
  \E path \in ToolPaths, writes \in BOOLEAN, loads \in BOOLEAN :
    /\ calls < MaxToolCalls
    /\ CreateModel(path, writes, loads)

ToolSetModelPath ==
  \E path \in ToolPaths, loads \in BOOLEAN :
    /\ calls < MaxToolCalls
    /\ SetModelPath(path, loads)

NextTools ==
  \/ ToolCreateElement
  \/ ToolCreateModel
  \/ ToolSetModelPath

SpecTools == InitTools /\ [][NextTools]_vars

----
\* Validation: BusinessRulesValidator and ValidationReporter

\* RELATIONSHIP_COMPATIBILITY[type].cardinality
cardinalityOf(type) ==
  CASE type \in {"Composition", "Aggregation"} -> "one-to-many"
    [] type \in {"Assignment", "Specialization"} -> "one-to-one"
    [] OTHER -> Undefined

\* a ValidationResult; its errors are their messages
ValidationResult(valid, errors) == [supplied |-> TRUE, valid |-> valid, errors |-> errors]
\* an argument of createReport that is left out
NoResult == [supplied |-> FALSE, valid |-> TRUE, errors |-> <<>>]

\* a cardinality check that does not set the relationship itself aside
validateRelationshipCardinalityAnyId(relationship, allRelationships) ==
  IF Falsy(relationship.type) THEN ValidationResult(TRUE, <<>>)
  ELSE IF cardinalityOf(relationship.type) = Undefined THEN ValidationResult(TRUE, <<>>)
  ELSE LET existing ==
             \E i \in 1..Len(allRelationships) :
               /\ allRelationships[i].type = relationship.type
               /\ allRelationships[i].sourceId = relationship.sourceId
               /\ allRelationships[i].targetId = relationship.targetId
           errors == IF cardinalityOf(relationship.type) = "one-to-one" /\ existing
                     THEN <<"cardinality">> ELSE <<>>
       IN ValidationResult(errors = <<>>, errors)

validateRelationshipCardinality(relationship, allRelationships) ==
  IF Falsy(relationship.type) THEN ValidationResult(TRUE, <<>>)
  ELSE IF cardinalityOf(relationship.type) = Undefined THEN ValidationResult(TRUE, <<>>)
  ELSE LET existing ==
             \E i \in 1..Len(allRelationships) :
               /\ allRelationships[i].id # relationship.id
               /\ allRelationships[i].type = relationship.type
               /\ allRelationships[i].sourceId = relationship.sourceId
               /\ allRelationships[i].targetId = relationship.targetId
           errors == IF cardinalityOf(relationship.type) = "one-to-one" /\ existing
                     THEN <<"cardinality">> ELSE <<>>
       IN ValidationResult(errors = <<>>, errors)

\* the errors createReport takes from one result, marked with their category
categorized(result, category) ==
  IF result.supplied /\ ~result.valid
  THEN [i \in 1..Len(result.errors) |->
          [message |-> result.errors[i], severity |-> "error", category |-> category]]
  ELSE <<>>

createReport(xsdResult, businessRulesResult, referentialIntegrityResult) ==
  LET errors == categorized(xsdResult, "xsd")
                  \o categorized(businessRulesResult, "business-rule")
                  \o categorized(referentialIntegrityResult, "referential-integrity")
      categories == {errors[i].category : i \in 1..Len(errors)}
  IN [valid |-> Len(errors) = 0,
      summary |-> [totalErrors |-> Len(errors),
                   totalWarnings |-> 0,
                   totalSuggestions |-> 0,
                   errorsByCategory |->
                     [c \in categories |->
                        Cardinality({i \in 1..Len(errors) : errors[i].category = c})]],
      errors |-> errors]

\* Specification of the validation calls, over a model with a list of relationships:
\* one call in each behaviour

ListedRelationships ==
  [id : {"r", "s"}, sourceId : {"a"}, targetId : {"b", "c"}, type : {"Assignment", "Serving"},
   properties : {NoProperties}]

ValidatedRelationships ==
  [id : {"r", "s"}, sourceId : {"a"}, targetId : {"b", "c"},
   type : {"Assignment", "Specialization", "Composition", "Serving", ""},
   properties : {NoProperties}]

ReportedResults ==
  {NoResult} \cup {ValidationResult(valid, errors) :
                     valid \in BOOLEAN, errors \in {<<>>, <<"not found: x">>}}

InitValidate ==
  /\ \E listed \in UNION {[1..n -> ListedRelationships] : n \in 0..MaxListed} :
       model = [BasicModel EXCEPT !.relationships = listed]
  /\ modified = FALSE
  /\ transaction = <<>>
  /\ aliased = FALSE
  /\ persisted = model
  /\ disk = Mounted(model)
  /\ pending = <<>>
  /\ serial = model
  /\ calls = 0
  /\ last = NoCall

\* validator.validateRelationshipCardinality(relationship, model.relationships)
ValidateCardinality ==
  \E relationship \in ValidatedRelationships :
    /\ calls = 0
    /\ calls' = 1
    /\ last' = [op |-> "validateRelationshipCardinality", err |-> "none",
                id |-> relationship.id, arg |-> "", cascade |-> FALSE,
                data |-> [relationship |-> relationship,
                          result |-> validateRelationshipCardinality(relationship,
                                                                     model.relationships)]]
    /\ UNCHANGED <<model, modified, transaction, aliased, persisted, disk, pending, serial>>

\* reporter.createReport(xsdResult, businessRulesResult, referentialIntegrityResult)
CreateReport ==
  \E xsdResult \in ReportedResults, businessRulesResult \in ReportedResults,
     referentialIntegrityResult \in ReportedResults :
    /\ calls = 0
    /\ calls' = 1
    /\ last' = [op |-> "createReport", err |-> "none", id |-> "", arg |-> "",
                cascade |-> FALSE,
                data |-> [results |-> <<xsdResult, businessRulesResult,
                                        referentialIntegrityResult>>,
                          report |-> createReport(xsdResult, businessRulesResult,
                                                  referentialIntegrityResult)]]
    /\ UNCHANGED <<model, modified, transaction, aliased, persisted, disk, pending, serial>>

NextValidate ==
  \/ ValidateCardinality
  \/ CreateReport

SpecValidate == InitValidate /\ [][NextValidate]_vars

----
\* Calls made without awaiting the previous one.  `await` hands the rest of the
\* call to the microtask queue: the caller's next call runs first, and suspended
\* calls resume in the order in which they were suspended.

NoRelationship ==
  [id |-> "", sourceId |-> "", targetId |-> "", type |-> "", properties |-> NoProperties]
NoOptions == [cascade |-> TRUE, validate |-> TRUE]

AsyncCall(op, id, data, opts) == [op |-> op, id |-> id, data |-> data, opts |-> opts]

AsyncCreateElementCalls ==
  {AsyncCall("createElement", "", [name |-> "X", type |-> t, identifier |-> i], NoOptions) :
     t \in {"Node", "Bogus"}, i \in {"d", "w"}}

AsyncUpdateElementCalls ==
  {AsyncCall("updateElement", i, [name |-> n, type |-> t], NoOptions) :
     i \in {"a", "c"}, n \in {Undefined, "Y"}, t \in {Undefined, "Goal"}}

AsyncDeleteElementCalls ==
  {AsyncCall("deleteElement", i, Undefined, NoOptions) : i \in {"a", "c"}}

AsyncCreateRelationshipCalls ==
  {AsyncCall("createRelationship", "",
             [type |-> "Serving", sourceId |-> "c", targetId |-> "b", identifier |-> i],
             NoOptions) : i \in {"s", "w"}}

AsyncUpdateRelationshipCalls ==
  {AsyncCall("updateRelationship", "r", [type |-> t, sourceId |-> x, targetId |-> Undefined],
             NoOptions) : t \in {Undefined, "Flow"}, x \in {Undefined, "c"}}

AsyncDeleteRelationshipCalls ==
  {AsyncCall("deleteRelationship", "r", Undefined, NoOptions)}

AsyncCreateViewCalls ==
  {AsyncCall("createView", "",
             [name |-> "V", identifier |-> "w", elements |-> e,
              relationships |-> UndefinedList, nodeHierarchy |-> UndefinedPairs],
             NoOptions) : e \in {UndefinedList, <<"c">>}}

\* the call c run to completion on m
Whole(m, c) ==
  CASE c.op = "createElement" -> createElement(m, c.data, GenIds.elem)
    [] c.op = "updateElement" -> updateElement(m, c.id, c.data)
    [] c.op = "deleteElement" -> deleteElement(m, c.id, c.opts)
    [] c.op = "createRelationship" -> createRelationship(m, c.data, GenIds.rel)
    [] c.op = "updateRelationship" -> updateRelationship(m, c.id, c.data)
    [] c.op = "deleteRelationship" -> deleteRelationship(m, c.id)
    [] c.op = "createView" -> createView(m, c.data, GenIds.view)

\* whether the call c, started on m, reaches an await
Suspends(m, c) ==
  CASE c.op = "createElement" -> createElementChecks(c.data) = "none"
    [] c.op = "updateElement" -> updateElementAwaits(m, c.id, c.data)
    [] c.op = "createRelationship" -> createRelationshipChecks(c.data) = "none"
    [] c.op = "updateRelationship" -> updateRelationshipAwaits(m, c.id, c.data)
    [] OTHER -> FALSE

\* what the suspended call keeps in its local variables: the element or relationship
\* object it found (attached while that object is still the entry of the array,
\* rel its contents once it is not) and the endpoints read before the await
Suspended(m, c) ==
  [op |-> c.op, id |-> c.id, data |-> c.data, attached |-> TRUE, rel |-> NoRelationship,
   previousSourceId |->
     IF c.op = "updateRelationship" THEN getRelationship(m, c.id).sourceId ELSE "",
   previousTargetId |->
     IF c.op = "updateRelationship" THEN getRelationship(m, c.id).targetId ELSE ""]

\* the objects of suspended calls that a step from before to after removed
Detach(pend, before, after) ==
  [i \in 1..Len(pend) |->
     LET k == pend[i]
     IN IF k.attached /\ k.op = "updateRelationship" /\ ~HasRelationship(after, k.id)
        THEN [k EXCEPT !.attached = FALSE, !.rel = getRelationship(before, k.id)]
        ELSE IF k.attached /\ k.op = "updateElement" /\ ~HasElement(after, k.id)
        THEN [k EXCEPT !.attached = FALSE]
        ELSE k]

\* the suspended call k resumed on m
Resumed(m, k) ==
  CASE k.op = "createElement" -> createElementResume(m, k.data, GenIds.elem)
    [] k.op = "updateElement" -> updateElementResume(m, k.id, k.data, k.attached)
    [] k.op = "createRelationship" -> createRelationshipResume(m, k.data, GenIds.rel)
    [] k.op = "updateRelationship" ->
         updateRelationshipResume(m, k.id, k.data,
                                  IF k.attached THEN getRelationship(m, k.id) ELSE k.rel,
                                  k.attached, k.previousSourceId, k.previousTargetId)

\* the caller makes the call c: it runs up to its first await, or to its end
Invoke(c) ==
  /\ calls' = calls + 1
  /\ serial' = Whole(serial, c).model
  /\ IF Suspends(model, c)
     THEN /\ pending' = Append(pending, Suspended(model, c))
          /\ last' = [op |-> c.op, err |-> "suspended", id |-> c.id, arg |-> "",
                      cascade |-> FALSE, data |-> NoInput]
          /\ UNCHANGED <<model, modified>>
     ELSE LET res == Whole(model, c)
          IN /\ model' = res.model
             /\ modified' = (modified \/ res.err = "none")
             /\ pending' = Detach(pending, model, res.model)
             /\ last' = [op |-> c.op, err |-> res.err, id |-> c.id, arg |-> "",
                         cascade |-> FALSE, data |-> NoInput]
  /\ UNCHANGED <<transaction, aliased, persisted, disk>>

InvokeCreateElement ==
  \E c \in AsyncCreateElementCalls :
    /\ calls < MaxAsyncCalls
    /\ Invoke(c)

InvokeUpdateElement ==
  \E c \in AsyncUpdateElementCalls :
    /\ calls < MaxAsyncCalls
    /\ Invoke(c)

InvokeDeleteElement ==
  \E c \in AsyncDeleteElementCalls :
    /\ calls < MaxAsyncCalls
    /\ Invoke(c)

InvokeCreateRelationship ==
  \E c \in AsyncCreateRelationshipCalls :
    /\ calls < MaxAsyncCalls
    /\ Invoke(c)

InvokeUpdateRelationship ==
  \E c \in AsyncUpdateRelationshipCalls :
    /\ calls < MaxAsyncCalls
    /\ Invoke(c)

InvokeDeleteRelationship ==
  \E c \in AsyncDeleteRelationshipCalls :
    /\ calls < MaxAsyncCalls
    /\ Invoke(c)

InvokeCreateView ==
  \E c \in AsyncCreateViewCalls :
    /\ calls < MaxAsyncCalls
    /\ Invoke(c)

\* the microtask at the head of the queue runs: the oldest suspended call finishes
Resume ==
  /\ pending # <<>>
  /\ LET k == Head(pending)
         res == Resumed(model, k)
     IN /\ model' = res.model
        /\ modified' = (modified \/ res.err = "none")
        /\ pending' = Detach(Tail(pending), model, res.model)
        /\ last' = [op |-> k.op, err |-> res.err, id |-> k.id, arg |-> "",
                    cascade |-> FALSE, data |-> NoInput]
  /\ UNCHANGED <<transaction, aliased, persisted, disk, serial, calls>>

NextAsync ==
  \/ InvokeCreateElement
  \/ InvokeUpdateElement
  \/ InvokeDeleteElement
  \/ InvokeCreateRelationship
  \/ InvokeUpdateRelationship
  \/ InvokeDeleteRelationship
  \/ InvokeCreateView
  \/ Resume

SpecAsync == Init /\ [][NextAsync]_vars

----
\* Properties

Mutations ==
  {"createElement", "updateElement", "deleteElement",
   "createRelationship", "updateRelationship", "deleteRelationship",
   "createView", "updateView", "deleteView",
   "addElementToView", "removeElementFromView",
   "addRelationshipToView", "removeRelationshipFromView", "rollbackTransaction"}

Errors == {"ValidationError", "NotFoundError", "DuplicateError", "ReferentialIntegrityError"}

\* the call that ran last was a mutation and it completed successfully
Succeeded == last.op \in Mutations /\ last.err = "none"

\* number of occurrences of x in seq
Count(seq, x) == Cardinality({i \in 1..Len(seq) : seq[i] = x})

ElementIds(m) == {m.elements[i].id : i \in 1..Len(m.elements)}
RelationshipIds(m) == {m.relationships[i].id : i \in 1..Len(m.relationships)}
ViewIds(m) == {m.views[i].id : i \in 1..Len(m.views)}
ElementsOf(m) == Range(m.elements)
RelationshipsOf(m) == Range(m.relationships)
ViewsOf(m) == Range(m.views)

\* C1: after every successfully completed mutation, every relationship's sourceId
\* and targetId name existing elements, the source's outgoingRelations contains the
\* relationship's id and the target's incomingRelations contains it.
C1_RelationshipEndpoints ==
  Succeeded =>
    \A R \in RelationshipsOf(model) :
      /\ R.sourceId \in ElementIds(model)
      /\ R.targetId \in ElementIds(model)
      /\ \A e \in ElementsOf(model) :
           /\ e.id = R.sourceId => Includes(e.outgoingRelations, R.id)
           /\ e.id = R.targetId => Includes(e.incomingRelations, R.id)

\* C2: after every successfully completed mutation, every id in a view's elements
\* names an existing element that has the view in its inViews, and every id in a
\* view's relationships names an existing relationship.
C2_ViewReferences ==
  Succeeded =>
    \A V \in ViewsOf(model) :
      /\ \A id \in Range(V.elements) :
           /\ id \in ElementIds(model)
           /\ \A e \in ElementsOf(model) : e.id = id => Includes(e.inViews, V.id)
      /\ \A id \in Range(V.relationships) : id \in RelationshipIds(model)

\* the ids of all entities, one entry per entity
AllIds(m) ==
  [i \in 1..Len(m.elements) |-> m.elements[i].id]
    \o [i \in 1..Len(m.relationships) |-> m.relationships[i].id]
    \o [i \in 1..Len(m.views) |-> m.views[i].id]

UniqueIds(m) == \A id \in Range(AllIds(m)) : Count(AllIds(m), id) = 1

Creates == {"createElement", "createRelationship", "createView"}

\* C3 (as claimed): no two entities share an id, and a create operation given an id
\* that already belongs to an element, relationship or view fails with DuplicateError.
C3_DuplicateAlways ==
  [][(last'.op \in Creates /\ last'.id \in Range(AllIds(model)))
       => last'.err = "DuplicateError"]_vars

\* the checks each create operation makes before it looks at the identifier
PassesEarlierChecks(m, op, data) ==
  CASE op = "createElement" ->
         Trim(data.name) # "" /\ data.type \in ElementTypes
    [] op = "createRelationship" ->
         /\ data.type \in RelationshipTypes
         /\ data.sourceId \in ElementIds(m) /\ data.targetId \in ElementIds(m)
         /\ data.sourceId # data.targetId
    [] op = "createView" -> Trim(data.name) # ""

\* C3 (amended): no two entities share an id; a create operation given an id that
\* already belongs to an element, relationship or view never succeeds, and it fails
\* with DuplicateError whenever its input passes the checks that precede the
\* identifier check (otherwise with the error of that earlier check).
C3_UniqueIds ==
  /\ []UniqueIds(model)
  /\ [][(last'.op \in Creates /\ last'.data.identifier \in Range(AllIds(model)))
          => /\ last'.err \in {"DuplicateError", "ValidationError", "NotFoundError"}
             /\ PassesEarlierChecks(model, last'.op, last'.data)
                  => last'.err = "DuplicateError"]_vars

\* a create call was refused because its id belongs to an entity of another kind
C3_Witness ==
  /\ last.op = "createElement" /\ last.err = "DuplicateError"
  /\ last.id \in ViewIds(model) \cup RelationshipIds(model)
  /\ Len(model.elements) >= 3

\* C4: after every successfully completed mutation, every id in an element's
\* outgoingRelations (incomingRelations) names an existing relationship whose source
\* (target) is that element, and each relationship id appears exactly once in its
\* source's outgoingRelations and exactly once in its target's incomingRelations.
C4_BackReferencesExact ==
  Succeeded =>
    /\ \A e \in ElementsOf(model) :
         /\ \A id \in Range(e.outgoingRelations) :
              \E R \in RelationshipsOf(model) : R.id = id /\ R.sourceId = e.id
         /\ \A id \in Range(e.incomingRelations) :
              \E R \in RelationshipsOf(model) : R.id = id /\ R.targetId = e.id
    /\ \A R \in RelationshipsOf(model) :
         /\ \E e \in ElementsOf(model) :
              e.id = R.sourceId /\ Count(e.outgoingRelations, R.id) = 1
         /\ \E e \in ElementsOf(model) :
              e.id = R.targetId /\ Count(e.incomingRelations, R.id) = 1

\* what is left of id, and of the relationships removed with it, between m and after
CascadeLeftovers(m, after, id) ==
  LET removed == RelationshipIds(m) \ RelationshipIds(after)
  IN \/ \E R \in RelationshipsOf(after) : R.sourceId = id \/ R.targetId = id
     \/ \E e \in ElementsOf(after) :
          \/ Range(e.outgoingRelations) \cap removed # {}
          \/ Range(e.incomingRelations) \cap removed # {}
     \/ \E V \in ViewsOf(after) :
          \/ id \in Range(V.elements)
          \/ Range(V.relationships) \cap removed # {}
          \/ \E h \in Range(V.nodeHierarchy) : h.parentElement = id \/ h.childElement = id

\* C5: after deleteElement(id, {cascade: true}) succeeds, no relationship has id as
\* source or target, no element holds the id of a removed relationship, and no view
\* lists the element, a removed relationship, or a hierarchy pair naming the element.
C5_CascadeComplete ==
  [][(last'.op = "deleteElement" /\ last'.err = "none" /\ last'.cascade)
       => ~CascadeLeftovers(model, model', last'.id)]_vars

ElementAndRelationshipCalls ==
  {"createElement", "updateElement", "deleteElement",
   "createRelationship", "updateRelationship", "deleteRelationship"}

\* C6: whenever an element or relationship create/update/delete fails with one of the
\* four errors, the aggregate is what it was before the call.
C6_FailureLeavesAggregate ==
  [][(last'.op \in ElementAndRelationshipCalls /\ last'.err \in Errors)
       => model' = model]_vars

\* an update of an existing relationship was refused
C6_Witness ==
  /\ last.op = "updateRelationship" /\ last.err \in {"ValidationError", "NotFoundError"}
  /\ last.id \in RelationshipIds(model)

\* C7: whenever createView, updateView, addElementToView or addRelationshipToView
\* fails with NotFoundError, the aggregate is what it was before the call.
C7_ViewFailureLeavesAggregate ==
  [][(last'.op \in {"createView", "updateView", "addElementToView", "addRelationshipToView"}
        /\ last'.err = "NotFoundError")
       => model' = model]_vars

\* C8: every rollbackTransaction(h), the first or a later one, leaves the live model
\* equal to the model as it was when beginTransaction returned h.
C8_RollbackRestores ==
  last.op = "rollbackTransaction" => model = transaction[1].begun

\* C9: no asynchronous mutation yields between its first read of the model and its
\* last write: once every call made has settled, the model is the one that running
\* the calls to completion one after the other, in call order, yields.
C9_ProgramOrder ==
  pending = <<>> => model = serial

\* C10: after every successfully completed mutation, both ids of every nodeHierarchy
\* pair of every view are members of the view's elements and name existing elements.
C10_HierarchyInView ==
  Succeeded =>
    \A V \in ViewsOf(model) : \A h \in Range(V.nodeHierarchy) :
      /\ h.parentElement \in Range(V.elements) /\ h.childElement \in Range(V.elements)
      /\ h.parentElement \in ElementIds(model) /\ h.childElement \in ElementIds(model)

\* the relationship types RELATIONSHIP_COMPATIBILITY marks cardinality: 'one-to-one'
OneToOneTypes == {"Assignment", "Specialization"}

\* C11: after every successfully completed mutation, no two distinct relationships of
\* a one-to-one type (Assignment, Specialization) have the same type, the same
\* sourceId and the same targetId.
C11_OneToOneUnique ==
  Succeeded =>
    \A i, j \in 1..Len(model.relationships) :
      (/\ i # j
       /\ model.relationships[i].type \in OneToOneTypes
       /\ model.relationships[i].type = model.relationships[j].type
       /\ model.relationships[i].sourceId = model.relationships[j].sourceId)
        => model.relationships[i].targetId # model.relationships[j].targetId

\* C12: no relationship in the model ever has sourceId equal to targetId (a create or
\* an update whose effective source and target coincide is refused).
C12_NoSelfLoop ==
  \A R \in RelationshipsOf(model) : R.sourceId # R.targetId

\* C13: deleteElement(id, {cascade: false, validate: true}) on an element that has an
\* outgoing relation, an incoming relation or a view membership fails with
\* ReferentialIntegrityError, the error's dependents name every such relationship and
\* view, and the element is not removed.
C13_DependentsRefuseDelete ==
  [][(/\ last'.op = "deleteElement"
      /\ ~last'.data.cascade /\ last'.data.validate
      /\ HasElement(model, last'.id)
      /\ \/ getElement(model, last'.id).outgoingRelations # <<>>
         \/ getElement(model, last'.id).incomingRelations # <<>>
         \/ getElement(model, last'.id).inViews # <<>>)
       => LET element == getElement(model, last'.id)
          IN /\ last'.err = "ReferentialIntegrityError"
             /\ Range(dependentsOf(element)) =
                  Range(element.outgoingRelations) \cup Range(element.incomingRelations)
                    \cup Range(element.inViews)
             /\ HasElement(model', last'.id)
             /\ model' = model]_vars

\* a delete without cascade was refused for an element whose only dependent is a view
C13_Witness ==
  /\ last.op = "deleteElement" /\ last.err = "ReferentialIntegrityError"
  /\ ~last.data.cascade /\ last.data.validate
  /\ HasElement(model, last.id)
  /\ getElement(model, last.id).outgoingRelations = <<>>
  /\ getElement(model, last.id).incomingRelations = <<>>
  /\ getElement(model, last.id).inViews # <<>>

\* the relation lists of the elements of after are those of before, except the
\* outgoing lists of the elements in sources and the incoming lists of those in targets
OtherListsKept(before, after, sources, targets) ==
  /\ Len(after.elements) = Len(before.elements)
  /\ \A i \in 1..Len(before.elements) :
       /\ after.elements[i].id = before.elements[i].id
       /\ before.elements[i].id \notin sources
            => after.elements[i].outgoingRelations = before.elements[i].outgoingRelations
       /\ before.elements[i].id \notin targets
            => after.elements[i].incomingRelations = before.elements[i].incomingRelations

\* C14: when updateRelationship succeeds with a changed sourceId (targetId), the
\* relationship id is gone from the old source's outgoingRelations (old target's
\* incomingRelations) and present in the new source's outgoingRelations (new target's
\* incomingRelations), and no other element's relation lists change.
C14_EndpointsMigrate ==
  [][(last'.op = "updateRelationship" /\ last'.err = "none")
       => LET id == last'.id
              old == getRelationship(model, id)
              new == getRelationship(model', id)
          IN /\ old.sourceId # new.sourceId =>
                  /\ \A e \in ElementsOf(model') :
                       e.id = old.sourceId => ~Includes(e.outgoingRelations, id)
                  /\ \E e \in ElementsOf(model') :
                       e.id = new.sourceId /\ Includes(e.outgoingRelations, id)
             /\ old.targetId # new.targetId =>
                  /\ \A e \in ElementsOf(model') :
                       e.id = old.targetId => ~Includes(e.incomingRelations, id)
                  /\ \E e \in ElementsOf(model') :
                       e.id = new.targetId /\ Includes(e.incomingRelations, id)
             /\ OtherListsKept(model, model',
                               {old.sourceId, new.sourceId}, {old.targetId, new.targetId})]_vars

\* a field was supplied and is blank
BlankSupplied(field) == field # Undefined /\ Trim(field) = ""

\* a non-blank endpoint id was supplied and names no element of m
MissingSupplied(m, field) ==
  field # Undefined /\ Trim(field) # "" /\ field \notin ElementIds(m)

\* C15: updateRelationship rejects what createRelationship rejects: a supplied blank
\* type, sourceId or targetId and a supplied type outside the taxonomy raise
\* ValidationError, a supplied endpoint id naming no element raises NotFoundError, and
\* in each case the stored relationship keeps its type, sourceId and targetId.
C15_UpdateRejectsMalformed ==
  \A c \in UpdateRelationshipCalls :
    HasRelationship(model, c.id) =>
      LET d == c.data
          res == updateRelationship(model, c.id, d)
          invalid == \/ BlankSupplied(d.type) \/ BlankSupplied(d.sourceId)
                     \/ BlankSupplied(d.targetId)
                     \/ (d.type # Undefined /\ Trim(d.type) # "" /\ d.type \notin RelationshipTypes)
          missing == MissingSupplied(model, d.sourceId) \/ MissingSupplied(model, d.targetId)
      IN /\ (invalid \/ missing) =>
              /\ res.err \in {"ValidationError", "NotFoundError"}
              /\ getRelationship(res.model, c.id) = getRelationship(model, c.id)
         /\ (invalid /\ ~missing) => res.err = "ValidationError"
         /\ (missing /\ ~invalid) => res.err = "NotFoundError"

\* C16: after deleteRelationship(id) succeeds the relationship is absent from the
\* model, its id is absent from its former source's outgoingRelations, from its former
\* target's incomingRelations and from every view's relationships list; for an unknown
\* id the call fails with NotFoundError.
C16_DeleteRelationshipComplete ==
  [][last'.op = "deleteRelationship"
       => LET id == last'.id
          IN IF ~HasRelationship(model, id) THEN last'.err = "NotFoundError"
             ELSE
               LET former == getRelationship(model, id)
               IN /\ last'.err = "none"
                  /\ ~HasRelationship(model', id)
                  /\ \A e \in ElementsOf(model') :
                       /\ e.id = former.sourceId => ~Includes(e.outgoingRelations, id)
                       /\ e.id = former.targetId => ~Includes(e.incomingRelations, id)
                  /\ \A V \in ViewsOf(model') : ~Includes(V.relationships, id)]_vars

\* in m, exactly the elements listed in the elements of view viewId, which are ids,
\* have viewId in their inViews
InViewsMatch(m, viewId, ids) ==
  /\ getView(m, viewId).elements = ids
  /\ \A e \in ElementsOf(m) : Includes(e.inViews, viewId) <=> e.id \in Range(ids)
  /\ Range(ids) \subseteq ElementIds(m)

\* C17: after createView or updateView succeeds with an elements list, an element has
\* the view's id in its inViews if and only if it is in the view's new elements list.
C17_InViewsSynchronized ==
  [][(/\ last'.op \in {"createView", "updateView"} /\ last'.err = "none"
      /\ last'.data.elements # UndefinedList)
       => InViewsMatch(model', last'.id, last'.data.elements)]_vars

\* an update replaced the elements of view v: c gained the view, a and b lost it
C17_Witness ==
  /\ last.op = "updateView" /\ last.err = "none" /\ last.id = "v"
  /\ HasView(model, "v") /\ getView(model, "v").elements = <<"c">>
  /\ \A e \in ElementsOf(model) : Includes(e.inViews, "v") <=> e.id = "c"
  /\ {"a", "b", "c"} \subseteq ElementIds(model)

\* C18: addElementToView is idempotent: a second call with the same viewId, elementId
\* and parentId succeeds and leaves view.elements, element.inViews and
\* view.nodeHierarchy as they were after the first call, and when a parentId is given
\* the parent is a member of view.elements afterwards.
C18_AddElementIdempotent ==
  [][(last'.op = "addElementToView" /\ last'.err = "none")
       => LET viewId == last'.id
              elementId == last'.arg
              parentElementId == last'.data.parentElementId
              second == addElementToView(model', viewId, elementId, parentElementId)
          IN /\ second.err = "none"
             /\ getView(second.model, viewId).elements = getView(model', viewId).elements
             /\ getView(second.model, viewId).nodeHierarchy
                  = getView(model', viewId).nodeHierarchy
             /\ getElement(second.model, elementId).inViews
                  = getElement(model', elementId).inViews
             /\ Count(getView(second.model, viewId).elements, elementId)
                  = Count(getView(model', viewId).elements, elementId)
             /\ ~Falsy(parentElementId) =>
                  /\ Includes(getView(model', viewId).elements, parentElementId)
                  /\ Includes(getView(second.model, viewId).elements, parentElementId)]_vars

\* element c was added to view v under parent a
C18_Witness ==
  /\ last.op = "addElementToView" /\ last.err = "none"
  /\ last.id = "v" /\ last.arg = "c" /\ last.data.parentElementId = "a"
  /\ HasView(model, "v")
  /\ Includes(getView(model, "v").nodeHierarchy, Pair("a", "c"))
  /\ Includes(getView(model, "v").elements, "c")
  /\ Includes(getView(model, "v").elements, "a")

\* C19: after removeElementFromView(viewId, elementId) succeeds, the view's elements
\* do not contain elementId, no nodeHierarchy pair of the view names it, no relationship
\* left in the view's relationships has it as source or target, and the element's
\* inViews does not contain viewId.
C19_RemoveElementComplete ==
  [][(last'.op = "removeElementFromView" /\ last'.err = "none")
       => LET view == getView(model', last'.id)
              elementId == last'.arg
          IN /\ ~Includes(view.elements, elementId)
             /\ \A h \in Range(view.nodeHierarchy) :
                  h.parentElement # elementId /\ h.childElement # elementId
             /\ \A R \in RelationshipsOf(model') :
                  Includes(view.relationships, R.id)
                    => R.sourceId # elementId /\ R.targetId # elementId
             /\ \A e \in ElementsOf(model') :
                  e.id = elementId => ~Includes(e.inViews, last'.id)]_vars

\* C20: after addRelationshipToView(V, R) succeeds, R.id is in V.relationships, R's
\* source and target elements are in V.elements, and both have V.id in their inViews,
\* whether or not the endpoints were in the view before the call.
C20_AddRelationshipBringsEndpoints ==
  [][(last'.op = "addRelationshipToView" /\ last'.err = "none")
       => LET V == getView(model', last'.id)
              R == getRelationship(model', last'.arg)
          IN /\ Includes(V.relationships, R.id)
             /\ Includes(V.elements, R.sourceId)
             /\ Includes(V.elements, R.targetId)
             /\ \E e \in ElementsOf(model') : e.id = R.sourceId /\ Includes(e.inViews, V.id)
             /\ \E e \in ElementsOf(model') : e.id = R.targetId /\ Includes(e.inViews, V.id)]_vars

\* C21: commitTransaction(h) changes nothing in the model (every mutation applied
\* since beginTransaction stays applied, the commit adds and removes nothing) and
\* leaves isModified() true.
C21_CommitKeepsModel ==
  [][last'.op = "commitTransaction" => (model' = model /\ modified')]_vars

\* a transaction that created element d was committed
C21_Witness ==
  /\ last.op = "commitTransaction" /\ modified
  /\ ~transaction[1].open
  /\ ~HasElement(transaction[1].begun, "d")
  /\ HasElement(model, "d")

EngineOperations ==
  (Mutations \ {"rollbackTransaction"})
    \cup {"createPropertyDefinition", "assignProperty", "updateProperty", "deleteProperty"}

\* C22: every Mutation Engine operation that returns successfully leaves
\* isModified() returning true.
C22_SuccessMarksModified ==
  [][(last'.op \in EngineOperations /\ last'.err = "none") => modified']_vars

\* a property was deleted from element a of a model that had not been modified
C22_Witness ==
  /\ last.op = "deleteProperty" /\ last.err = "none" /\ last.id = "a" /\ last.arg = "p"
  /\ calls = 1
  /\ modified
  /\ ~HasKey(getElement(model, "a").properties, "p")

\* C23: after reload(), whatever mutations were applied before it, the live model is
\* the loader's last persisted state (no unsaved mutation is visible through
\* getModel, getElement, getRelationship or getView) and isModified() returns false.
C23_ReloadDiscards ==
  [][last'.op = "reload" => (model' = persisted /\ ~modified')]_vars

\* a modified model was reloaded
C23_Witness ==
  /\ last.op = "reload" /\ last.data.wasModified
  /\ ~modified
  /\ model = persisted

\* C28: assignProperty and updateProperty fail with NotFoundError, leaving the target
\* entity's properties (and the rest of the model) unchanged, when the named property
\* definition does not exist or the target entity does not exist; updateProperty also
\* fails with NotFoundError when the entity does not carry that property.
C28_PropertyWritesChecked ==
  [][last'.op \in {"assignProperty", "updateProperty"}
       => LET targetId == last'.id
              propertyDefId == last'.arg
          IN /\ (\/ ~HasPropertyDefinition(model, propertyDefId)
                 \/ findEntity(model, targetId) = "none")
                  => (last'.err = "NotFoundError" /\ model' = model)
             /\ (/\ last'.op = "updateProperty"
                 /\ findEntity(model, targetId) # "none"
                 /\ ~HasKey(entityProperties(model, targetId), propertyDefId))
                  => (last'.err = "NotFoundError" /\ model' = model)]_vars

\* an assignment under a definition that does not exist was refused for element a
C28_Witness ==
  /\ last.op = "assignProperty" /\ last.err = "NotFoundError"
  /\ last.id = "a" /\ last.arg = MissingId
  /\ HasElement(model, "a")
  /\ ~HasPropertyDefinition(model, MissingId)
  /\ ~HasKey(getElement(model, "a").properties, MissingId)

\* some element, relationship or view of m carries a property keyed by key
Carried(m, key) ==
  \/ \E e \in ElementsOf(m) : \E p \in e.properties : p.key = key
  \/ \E R \in RelationshipsOf(m) : \E p \in R.properties : p.key = key
  \/ \E V \in ViewsOf(m) : \E p \in V.properties : p.key = key

DefinitionIds(m) == {m.propertyDefinitions[i].identifier : i \in 1..Len(m.propertyDefinitions)}

\* C29: deleteProperty removes the property from the named entity (and no other
\* property of it); the property definition is removed from propertyDefinitions if
\* and only if cascade is true and, after the removal, no element, relationship or
\* view still carries a property keyed by it; no other definition is touched.
C29_CascadeRemovesUnusedDefinition ==
  [][(last'.op = "deleteProperty" /\ last'.err = "none")
       => LET targetId == last'.id
              propertyDefId == last'.arg
          IN /\ findEntity(model', targetId) = findEntity(model, targetId)
             /\ entityProperties(model', targetId)
                  = {p \in entityProperties(model, targetId) : p.key # propertyDefId}
             /\ propertyDefId \in DefinitionIds(model)
                  => (propertyDefId \notin DefinitionIds(model')
                        <=> (last'.data.cascade /\ ~Carried(model', propertyDefId)))
             /\ DefinitionIds(model') \ {propertyDefId}
                  = DefinitionIds(model) \ {propertyDefId}]_vars

\* p was deleted from element a with cascade and its definition stayed, because
\* relationship r still carries p
C29_Witness ==
  /\ last.op = "deleteProperty" /\ last.err = "none" /\ last.cascade
  /\ last.id = "a" /\ last.arg = "p"
  /\ ~HasKey(getElement(model, "a").properties, "p")
  /\ HasRelationship(model, "r") /\ HasKey(getRelationship(model, "r").properties, "p")
  /\ HasPropertyDefinition(model, "p")

\* a relationship of m has a missing endpoint, or a view of m lists a missing element
\* or relationship
Dangling(m) ==
  \/ \E R \in RelationshipsOf(m) :
       R.sourceId \notin ElementIds(m) \/ R.targetId \notin ElementIds(m)
  \/ \E V \in ViewsOf(m) :
       \/ \E id \in Range(V.elements) : id \notin ElementIds(m)
       \/ \E id \in Range(V.relationships) : id \notin RelationshipIds(m)

\* C30: save/saveAs with validation enabled raises DuplicateError on an aggregate
\* that contains a duplicate id, and ReferentialIntegrityError on one that contains a
\* relationship with a missing endpoint or a view referencing a missing element or
\* relationship; in both cases nothing is written to the target path.
C30_SaveValidates ==
  [][(last'.op \in {"save", "saveAs"} /\ last'.data.validate)
       => /\ ~UniqueIds(model) => (last'.err = "DuplicateError" /\ persisted' = persisted)
          /\ (UniqueIds(model) /\ Dangling(model))
               => (last'.err = "ReferentialIntegrityError" /\ persisted' = persisted)]_vars

\* C26: createElement fails with ValidationError when name or type is empty or blank
\* after trimming or when type is not an element type of the taxonomy, and otherwise
\* with DuplicateError when the element's id (the supplied one, or the generated one
\* when none is supplied) already exists; otherwise it adds exactly one element, whose
\* outgoingRelations, incomingRelations and inViews are empty, and changes no other
\* entity.
C26_CreateElementContract ==
  [][last'.op = "createElement"
       => LET data == last'.data
              invalid == \/ BlankOrMissing(data.name)
                         \/ BlankOrMissing(data.type)
                         \/ data.type \notin ElementTypes
              taken == last'.id \in Range(AllIds(model))
              n == Len(model.elements)
          IN /\ invalid => (last'.err = "ValidationError" /\ model' = model)
             /\ (~invalid /\ taken) => (last'.err = "DuplicateError" /\ model' = model)
             /\ (~invalid /\ ~taken) =>
                  /\ last'.err = "none"
                  /\ Len(model'.elements) = n + 1
                  /\ SubSeq(model'.elements, 1, n) = model.elements
                  /\ model'.elements[n + 1].id = last'.id
                  /\ model'.elements[n + 1].name = Trim(data.name)
                  /\ model'.elements[n + 1].type = data.type
                  /\ model'.elements[n + 1].outgoingRelations = <<>>
                  /\ model'.elements[n + 1].incomingRelations = <<>>
                  /\ model'.elements[n + 1].inViews = <<>>
                  /\ model'.relationships = model.relationships
                  /\ model'.views = model.views
                  /\ model'.propertyDefinitions = model.propertyDefinitions]_vars

\* element d was created next to a, b and c, which kept their references
C26_Witness ==
  /\ last.op = "createElement" /\ last.err = "none" /\ last.id = "d"
  /\ Len(model.elements) = 4
  /\ model.elements[4].id = "d" /\ model.elements[4].name = "X"
  /\ model.elements[4].inViews = <<>>
  /\ getElement(model, "a").outgoingRelations = <<"r">>
  /\ getElement(model, "a").inViews = <<"v">>

\* C27: updateElement fails with ValidationError for every supplied name that is
\* blank and for every supplied type value (any string, blank ones included) that is
\* not a member of the element-type taxonomy, so that after any sequence of
\* operations every element's type is a taxonomy member and every element's name is
\* non-blank.
C27_ElementsWellTyped ==
  /\ [](\A e \in ElementsOf(model) : e.type \in ElementTypes /\ Trim(e.name) # "")
  /\ [][(/\ last'.op = "updateElement"
          /\ HasElement(model, last'.id)
          /\ \/ last'.data.name # Undefined /\ Trim(last'.data.name) = ""
             \/ last'.data.type # Undefined /\ last'.data.type \notin ElementTypes)
           => last'.err = "ValidationError"]_vars

\* C31: after a mutation has set isModified() to true, save/saveAs of a valid model
\* completes without error and leaves isModified() returning false.
C31_SaveClearsModified ==
  [][(/\ last'.op \in {"save", "saveAs"}
      /\ modified
      /\ UniqueIds(model) /\ ~Dangling(model))
       => (last'.err = "none" /\ ~modified')]_vars

----
\* Exchange codec: ArchiMateXMLBuilder (persistence.ts) and the loader's decoding.
\* An XML element is a record of its attributes and children; an attribute or child
\* that is not written holds Undefined, a section without entries is the empty
\* sequence.

\* the <properties> children of an entity, one <property> per entry
serializeProperties(properties) ==
  {[propertyDefinitionRef |-> p.key, value |-> p.value] : p \in properties}

serializeElement(element) ==
  [identifier |-> element.id,
   xsiType |-> IF Falsy(element.type) THEN Undefined ELSE element.type,
   name |-> IF Falsy(element.name) THEN Undefined ELSE element.name,
   properties |-> serializeProperties(element.properties)]

serializeRelationship(relationship) ==
  [identifier |-> relationship.id,
   source |-> relationship.sourceId,
   target |-> relationship.targetId,
   xsiType |-> IF Falsy(relationship.type) THEN Undefined ELSE relationship.type,
   properties |-> serializeProperties(relationship.properties)]

\* what `node.att('elementRef')` evaluates to in the predicate given to viewEl.find:
\* the attribute's value, the builder the call was made on, or an exception
AttOutcomes == {"value", "builder", "throws"}

\* viewEl.find(node => node.att('elementRef') === parentElement) over the <node>
\* children of the view: the index of the first match, 0 for none
findParentNode(nodes, parentElement, att) ==
  IF att = "value" /\ \E i \in 1..Len(nodes) : nodes[i].elementRef = parentElement
  THEN CHOOSE i \in 1..Len(nodes) :
         /\ nodes[i].elementRef = parentElement
         /\ \A j \in 1..(i-1) : nodes[j].elementRef # parentElement
  ELSE 0

\* the loop over view.nodeHierarchy: `if (parentNode) parentNode.ele('node', ...)`
RECURSIVE nestHierarchy(_, _, _)
nestHierarchy(nodes, nodeHierarchy, att) ==
  IF nodeHierarchy = <<>> THEN nodes
  ELSE LET parentNode == findParentNode(nodes, Head(nodeHierarchy).parentElement, att)
           child == Head(nodeHierarchy).childElement
       IN nestHierarchy(
            IF parentNode # 0
            THEN [nodes EXCEPT ![parentNode].nested = Append(@, child)]
            ELSE nodes,
            Tail(nodeHierarchy), att)

\* the predicate runs on the children the view element has when the hierarchy loop
\* starts: name, properties, nodes and connections
findRaises(view, att) ==
  /\ att = "throws"
  /\ view.nodeHierarchy # <<>>
  /\ \/ ~Falsy(view.name)
     \/ view.properties # NoProperties
     \/ view.elements # <<>>
     \/ view.relationships # <<>>

serializeView(view, att) ==
  [identifier |-> view.id,
   name |-> IF Falsy(view.name) THEN Undefined ELSE view.name,
   properties |-> serializeProperties(view.properties),
   nodes |-> nestHierarchy([i \in 1..Len(view.elements) |->
                              [elementRef |-> view.elements[i], nested |-> <<>>]],
                           view.nodeHierarchy, att),
   connections |-> view.relationships]

\* the document serialize returns, or the error that leaves it
serialize(m, att) ==
  IF \E i \in 1..Len(m.views) : findRaises(m.views[i], att)
  THEN [xml |-> NoInput, err |-> "Error"]
  ELSE [xml |-> [elements |-> [i \in 1..Len(m.elements) |-> serializeElement(m.elements[i])],
                 relationships |-> [i \in 1..Len(m.relationships) |->
                                      serializeRelationship(m.relationships[i])],
                 propertyDefinitions |-> [i \in 1..Len(m.propertyDefinitions) |->
                                            [identifier |-> m.propertyDefinitions[i].identifier,
                                             type |-> "string",
                                             name |-> m.propertyDefinitions[i].name]],
                 views |-> [i \in 1..Len(m.views) |-> serializeView(m.views[i], att)]],
        err |-> "none"]

\* Decoding, the structural inverse of the format

decodeProperties(properties) ==
  {Property(p.propertyDefinitionRef, p.value) : p \in properties}

\* the nodeHierarchy pairs of the nested nodes, in document order
RECURSIVE decodeHierarchy(_)
decodeHierarchy(nodes) ==
  IF nodes = <<>> THEN <<>>
  ELSE [i \in 1..Len(Head(nodes).nested) |->
          Pair(Head(nodes).elementRef, Head(nodes).nested[i])]
       \o decodeHierarchy(Tail(nodes))

\* the elements of a view: its nodes, then the nested ones that have no node of
\* their own
RECURSIVE decodeNested(_, _)
decodeNested(elements, pairs) ==
  IF pairs = <<>> THEN elements
  ELSE decodeNested(PushUnique(elements, Head(pairs).childElement), Tail(pairs))

decodeView(view) ==
  [id |-> view.identifier, name |-> view.name,
   properties |-> decodeProperties(view.properties),
   elements |-> decodeNested([i \in 1..Len(view.nodes) |-> view.nodes[i].elementRef],
                             decodeHierarchy(view.nodes)),
   relationships |-> view.connections,
   nodeHierarchy |-> decodeHierarchy(view.nodes)]

\* the model read from a document; the back-reference lists of an element are
\* derived from the relationships and views of the document
decode(xml) ==
  LET views == [i \in 1..Len(xml.views) |-> decodeView(xml.views[i])]
      relationships ==
        [i \in 1..Len(xml.relationships) |->
           [id |-> xml.relationships[i].identifier,
            sourceId |-> xml.relationships[i].source,
            targetId |-> xml.relationships[i].target,
            type |-> xml.relationships[i].xsiType,
            properties |-> decodeProperties(xml.relationships[i].properties)]]
      viewIds == [i \in 1..Len(views) |-> views[i].id]
      relationshipIds == [i \in 1..Len(relationships) |-> relationships[i].id]
      derived(e) ==
        LET shows(viewId) ==
              \E i \in 1..Len(views) :
                views[i].id = viewId /\ Includes(views[i].elements, e.identifier)
            leaves(id) ==
              \E i \in 1..Len(relationships) :
                relationships[i].id = id /\ relationships[i].sourceId = e.identifier
            enters(id) ==
              \E i \in 1..Len(relationships) :
                relationships[i].id = id /\ relationships[i].targetId = e.identifier
        IN [id |-> e.identifier, name |-> e.name, type |-> e.xsiType,
            properties |-> decodeProperties(e.properties),
            inViews |-> SelectSeq(viewIds, shows),
            outgoingRelations |-> SelectSeq(relationshipIds, leaves),
            incomingRelations |-> SelectSeq(relationshipIds, enters)]
  IN [elements |-> [i \in 1..Len(xml.elements) |-> derived(xml.elements[i])],
      relationships |-> relationships,
      views |-> views,
      propertyDefinitions |->
        [i \in 1..Len(xml.propertyDefinitions) |->
           [identifier |-> xml.propertyDefinitions[i].identifier,
            name |-> xml.propertyDefinitions[i].name]]]

\* Specification of the codec: a model is serialized, and the document decoded

CodecPairs == {Pair("a", "b"), Pair("b", "c"), Pair("a", "c"), Pair("c", "a")}

CodecElementLists == {<<>>, <<"a">>, <<"a", "b">>, <<"a", "b", "c">>, <<"c">>}

\* the model with properties whose view shows elements with the pairs of nodeHierarchy
CodecModel(elements, nodeHierarchy) ==
  LET inViews(id) == IF Includes(elements, id) THEN <<"v">> ELSE <<>>
  IN [ModelWithProperties EXCEPT
        !.views[1].elements = elements,
        !.views[1].nodeHierarchy = nodeHierarchy,
        !.elements[1].inViews = inViews("a"),
        !.elements[2].inViews = inViews("b"),
        !.elements[3].inViews = inViews("c")]

CodecModels ==
  {CodecModel(elements, nodeHierarchy) :
     elements \in CodecElementLists,
     nodeHierarchy \in UNION {[1..n -> CodecPairs] : n \in 0..MaxPairs}}

InitCodec ==
  /\ model \in CodecModels
  /\ modified = FALSE
  /\ transaction = <<>>
  /\ aliased = FALSE
  /\ persisted = model
  /\ disk = Mounted(model)
  /\ pending = <<>>
  /\ serial = model
  /\ calls = 0
  /\ last = NoCall

\* builder.serialize(manipulator.getModel())
CodecSerialize ==
  \E att \in AttOutcomes :
    /\ last.op # "serialize"
    /\ last' = [op |-> "serialize", err |-> serialize(model, att).err, id |-> "",
                arg |-> att, cascade |-> FALSE, data |-> serialize(model, att).xml]
    /\ UNCHANGED <<model, modified, transaction, aliased, persisted, disk, pending, serial, calls>>

\* a manipulator constructed over the document written last
CodecDecode ==
  /\ last.op = "serialize" /\ last.err = "none"
  /\ model' = decode(last.data)
  /\ persisted' = decode(last.data)
  /\ disk' = [disk EXCEPT !.files[disk.path] = File(decode(last.data))]
  /\ serial' = decode(last.data)
  /\ last' = [op |-> "decode", err |-> "none", id |-> "", arg |-> last.arg,
              cascade |-> FALSE, data |-> NoInput]
  /\ UNCHANGED <<modified, transaction, aliased, pending, calls>>

NextCodec ==
  \/ CodecSerialize
  \/ CodecDecode

SpecCodec == InitCodec /\ [][NextCodec]_vars

----
\* Error objects (manipulator-types.ts)

\* the fields of an error a caller reads; suggestions is the constructor's optional
\* argument, stored as given
ModelManipulationError(name, code, entityId, suggestions) ==
  [name |-> name, code |-> code, entityId |-> entityId, suggestions |-> suggestions]

ValidationError(entityId, suggestions) ==
  ModelManipulationError("ValidationError", "VALIDATION_FAILED", entityId, suggestions)

NotFoundError(entityType, entityId, suggestions) ==
  LET code == IF entityType = "element" THEN "ELEMENT_NOT_FOUND"
              ELSE IF entityType = "relationship" THEN "RELATIONSHIP_NOT_FOUND"
              ELSE IF entityType = "view" THEN "VIEW_NOT_FOUND"
              ELSE "NOT_FOUND"
  IN ModelManipulationError("NotFoundError", code, entityId, suggestions)

DuplicateError(entityType, entityId, suggestions) ==
  LET code == IF entityType = "element" THEN "ELEMENT_DUPLICATE"
              ELSE IF entityType = "relationship" THEN "RELATIONSHIP_DUPLICATE"
              ELSE IF entityType = "view" THEN "VIEW_DUPLICATE"
              ELSE "DUPLICATE"
  IN ModelManipulationError("DuplicateError", code, entityId, suggestions)

ReferentialIntegrityError(entityType, entityId, suggestions) ==
  ModelManipulationError("ReferentialIntegrityError", "REFERENTIAL_INTEGRITY_VIOLATION",
                         entityId, suggestions)

\* the entity kinds the manipulator names when it throws
EntityKinds == {"element", "relationship", "view", "entity", "property", "property definition"}

\* the error object behind an outcome: every `throw new ...` of the manipulator stops
\* before the suggestions argument
thrown(name, entityType, entityId) ==
  CASE name = "ValidationError" -> ValidationError(Undefined, UndefinedList)
    [] name = "NotFoundError" -> NotFoundError(entityType, entityId, UndefinedList)
    [] name = "DuplicateError" -> DuplicateError(entityType, entityId, UndefinedList)
    [] name = "ReferentialIntegrityError" ->
         ReferentialIntegrityError(entityType, entityId, UndefinedList)

\* Array.isArray on an optional string[] field
IsArray(list) == list # UndefinedList

\* C32: every error raised by a ModelManipulator operation (ValidationError,
\* NotFoundError, DuplicateError, ReferentialIntegrityError) carries a defined code and
\* a suggestions value that is an array.
C32_ErrorsCarrySuggestions ==
  last.err \in Errors
    => \A kind \in EntityKinds :
         /\ thrown(last.err, kind, last.id).code # Undefined
         /\ IsArray(thrown(last.err, kind, last.id).suggestions)

\* m satisfies the cross-entity invariants: ids are unique, references resolve,
\* hierarchy pairs stay inside the view, and the back-reference lists are exact
WellFormed(m) ==
  /\ UniqueIds(m)
  /\ ~Dangling(m)
  /\ \A V \in ViewsOf(m) : \A h \in Range(V.nodeHierarchy) :
       h.parentElement \in Range(V.elements) /\ h.childElement \in Range(V.elements)
  /\ \A e \in ElementsOf(m) :
       /\ \A V \in ViewsOf(m) : Count(e.inViews, V.id) = Count(V.elements, e.id)
       /\ Range(e.inViews) \subseteq ViewIds(m)
       /\ Range(e.outgoingRelations) = {R.id : R \in {Q \in RelationshipsOf(m) : Q.sourceId = e.id}}
       /\ Range(e.incomingRelations) = {R.id : R \in {Q \in RelationshipsOf(m) : Q.targetId = e.id}}

\* what the round trip compares of an entity
ElementContent(e) == [id |-> e.id, name |-> e.name, type |-> e.type, properties |-> e.properties]
RelationshipContent(R) ==
  [id |-> R.id, sourceId |-> R.sourceId, targetId |-> R.targetId, type |-> R.type,
   properties |-> R.properties]
ViewContent(V) ==
  [id |-> V.id, name |-> V.name, properties |-> V.properties,
   elements |-> Range(V.elements), relationships |-> Range(V.relationships),
   nodeHierarchy |-> Range(V.nodeHierarchy)]

SameContent(m, d) ==
  /\ {ElementContent(e) : e \in ElementsOf(m)} = {ElementContent(e) : e \in ElementsOf(d)}
  /\ {RelationshipContent(R) : R \in RelationshipsOf(m)}
       = {RelationshipContent(R) : R \in RelationshipsOf(d)}
  /\ {ViewContent(V) : V \in ViewsOf(m)} = {ViewContent(V) : V \in ViewsOf(d)}

\* C33: for every model m that satisfies the cross-entity invariants, decoding the XML
\* produced by serialize(m) yields the same sets of elements, relationships and views
\* (each view's elements, relationships and nodeHierarchy pairs included) and the same
\* property maps as m, with outgoingRelations, incomingRelations and inViews
\* re-derived from the relationship and view data.
C33_RoundTrip ==
  [][/\ (last'.op = "serialize" /\ WellFormed(model)) => last'.err = "none"
     /\ (last'.op = "decode" /\ WellFormed(model))
          => (SameContent(model, model') /\ WellFormed(model'))]_vars

\* C34: when a view is serialized, every nodeHierarchy pair produces a <node> for its
\* child: nested inside the parent's node when a node for the parent exists in the
\* view, and otherwise emitted as a flat sibling node, without raising.
C34_HierarchyNodes ==
  [][last'.op = "serialize"
       => /\ last'.err = "none"
          /\ \A i \in 1..Len(model.views) : \A h \in Range(model.views[i].nodeHierarchy) :
               LET nodes == last'.data.views[i].nodes
               IN IF h.parentElement \in Range(model.views[i].elements)
                  THEN \E n \in 1..Len(nodes) :
                         /\ nodes[n].elementRef = h.parentElement
                         /\ Includes(nodes[n].nested, h.childElement)
                  ELSE \E n \in 1..Len(nodes) : nodes[n].elementRef = h.childElement]_vars

\* C35: the createModel tool invoked while the manipulator has unsaved changes fails,
\* creates no file at the requested path, and leaves the in-memory model, the
\* modified flag and the configured model path unchanged; invoked with a path at
\* which a file already exists it fails and leaves that file untouched.
C35_CreateModelRefuses ==
  [][(/\ last'.op = "createModel"
      /\ \/ modified
         \/ last'.arg \in Paths /\ disk.files[last'.arg].exists)
       => /\ last'.err = "Error"
          /\ model' = model /\ modified' = modified
          /\ disk' = disk]_vars

\* createModel was refused for new.xml after element d was created and not saved
C35_Witness ==
  /\ last.op = "createModel" /\ last.err = "Error" /\ last.arg = "new.xml"
  /\ modified /\ HasElement(model, "d")
  /\ ~disk.files["new.xml"].exists
  /\ disk.path = "model.xml"

\* C36: validateRelationshipCardinality(r, all) returns valid=false if and only if
\* r's type is declared one-to-one (Assignment or Specialization) and all contains a
\* relationship with a different id but the same type, sourceId and targetId as r; it
\* never throws and never modifies its arguments.
C36_CardinalityExact ==
  [][last'.op = "validateRelationshipCardinality"
       => LET r == last'.data.relationship
          IN /\ ~last'.data.result.valid
                  <=> /\ r.type \in OneToOneTypes
                      /\ \E q \in RelationshipsOf(model) :
                           /\ q.id # r.id /\ q.type = r.type
                           /\ q.sourceId = r.sourceId /\ q.targetId = r.targetId
             /\ last'.err = "none"
             /\ model' = model]_vars

\* an Assignment from a to b was found invalid next to another one with a different id
C36_Witness ==
  /\ last.op = "validateRelationshipCardinality"
  /\ ~last.data.result.valid
  /\ last.data.relationship.type = "Assignment" /\ last.data.relationship.id = "s"
  /\ \E q \in RelationshipsOf(model) :
       q.id = "r" /\ q.type = "Assignment" /\ q.targetId = last.data.relationship.targetId

\* the number of errors a report counts over its categories
CategoryTotal(errorsByCategory) ==
  LET count(c) == IF c \in DOMAIN errorsByCategory THEN errorsByCategory[c] ELSE 0
  IN count("xsd") + count("business-rule") + count("referential-integrity")

\* C37: createReport returns valid=true if and only if every supplied validation
\* result has valid=true; whenever at least one supplied result is invalid the report
\* is invalid, and summary.totalErrors equals the sum of the counts in
\* summary.errorsByCategory.
C37_ReportValidity ==
  last.op = "createReport"
    => /\ last.data.report.valid
            <=> \A i \in 1..3 :
                  last.data.results[i].supplied => last.data.results[i].valid
       /\ last.data.report.summary.totalErrors
            = CategoryTotal(last.data.report.summary.errorsByCategory)

\* C38: in every reachable state, for any sequence of mutations, reloads,
\* beginTransaction, commitTransaction and rollbackTransaction calls, if the in-memory
\* model differs in content from the state last obtained from the loader (at
\* construction or the latest reload), then isModified() returns true.
C38_DifferenceIsModified ==
  model # persisted => modified

\* C39: after every successfully completed mutation, every view id held in an
\* element's inViews names an existing view whose elements list contains that
\* element, and no view id appears more than once in any element's inViews.
C39_InViewsExact ==
  Succeeded =>
    \A e \in ElementsOf(model) : \A viewId \in Range(e.inViews) :
      /\ \E V \in ViewsOf(model) : V.id = viewId /\ e.id \in Range(V.elements)
      /\ Count(e.inViews, viewId) = 1

\* a view was deleted, emptied or rewritten and an element still holds a view id
C39_Witness ==
  /\ Succeeded
  /\ last.op \in {"deleteView", "removeElementFromView", "updateView"}
  /\ \E e \in ElementsOf(model) : e.inViews # <<>>

====
